---- MODULE Spec2Model ----
(***************************************************************************)
(* Hybrid retrieval query router of the PartSelect assistant: entity       *)
(* extraction, intent classification, structured lookup, semantic          *)
(* retrieval and result fusion.                                            *)
(*                                                                         *)
(* A string is a sequence of one-character strings, so that the regular    *)
(* expressions, case conversions and substring tests of the source are     *)
(* computed character by character.                                        *)
(***************************************************************************)
EXTENDS Integers, Sequences, FiniteSets, TLC

(***************************************************************************)
(* Characters and the string primitives of JavaScript used by the source.  *)
(***************************************************************************)
LowerCh == <<"a", "b", "c", "d", "e", "f", "g", "h", "i", "j", "k", "l", "m", "n", "o", "p", "q", "r", "s", "t", "u", "v", "w", "x", "y", "z">>
UpperCh == <<"A", "B", "C", "D", "E", "F", "G", "H", "I", "J", "K", "L", "M", "N", "O", "P", "Q", "R", "S", "T", "U", "V", "W", "X", "Y", "Z">>
DigitCh == {"0", "1", "2", "3", "4", "5", "6", "7", "8", "9"}

LowerSet == {LowerCh[i] : i \in 1..Len(LowerCh)}
UpperSet == {UpperCh[i] : i \in 1..Len(UpperCh)}
AlphaSet == LowerSet \cup UpperSet
DigitDashSet == DigitCh \cup {"-"}
AlnumDashSet == AlphaSet \cup DigitCh \cup {"-"}
WordSet == AlphaSet \cup DigitCh \cup {"_"}
SpaceSet == {" "}

Min(a, b) == IF a < b THEN a ELSE b

toUpperCaseCh(c) ==
  IF c \in LowerSet THEN UpperCh[CHOOSE i \in 1..Len(LowerCh) : LowerCh[i] = c] ELSE c

toLowerCaseCh(c) ==
  IF c \in UpperSet THEN LowerCh[CHOOSE i \in 1..Len(UpperCh) : UpperCh[i] = c] ELSE c

toUpperCase(s) == [i \in 1..Len(s) |-> toUpperCaseCh(s[i])]

toLowerCase(s) == [i \in 1..Len(s) |-> toLowerCaseCh(s[i])]

\* String.prototype.includes
includes(h, n) == \E i \in 0..(Len(h) - Len(n)) : SubSeq(h, i + 1, i + Len(n)) = n

\* String.prototype.startsWith
startsWith(h, n) == Len(n) <= Len(h) /\ SubSeq(h, 1, Len(n)) = n

\* Array.prototype.includes on an array of strings
arrayIncludes(arr, x) == \E i \in 1..Len(arr) : arr[i] = x

\* [...new Set(arr)]: the first occurrence of each value, in order
uniqueInOrder(arr) ==
  LET first == {i \in 1..Len(arr) : \A j \in 1..(i - 1) : arr[j] # arr[i]}
      F[k \in 0..Len(arr)] ==
        IF k = 0 THEN <<>> ELSE IF k \in first THEN Append(F[k - 1], arr[k]) ELSE F[k - 1]
  IN F[Len(arr)]

\* The number of consecutive characters of s, from position p on, that are in cls
RunLen(s, p, cls) ==
  IF p > Len(s) THEN 0
  ELSE (CHOOSE e \in p..(Len(s) + 1) :
          /\ \A i \in p..(e - 1) : s[i] \in cls
          /\ (e = Len(s) + 1 \/ s[e] \notin cls)) - p

\* \b between positions p - 1 and p (p is the position of the next character)
IsWordAt(s, p) == p \in 1..Len(s) /\ s[p] \in WordSet
WordBoundary(s, p) == IsWordAt(s, p - 1) # IsWordAt(s, p)

(***************************************************************************)
(* The regular expressions of the extractors.  Each ...At operator gives   *)
(* the match that starts at position p, with the priorities of a           *)
(* backtracking matcher (a greedy quantifier tries its longest count       *)
(* first, an alternative earlier in the pattern is tried first), and each  *)
(* ...Matches operator scans as the g flag does: leftmost match first,     *)
(* the next search starting where the previous match ended.                *)
(***************************************************************************)

\* /\b([A-Z]{2,3})(\d{5,10})\b/gi at p: <<letters, digits>>, <<0, 0>> when none
partNumberPatternAt(s, p) ==
  LET la == RunLen(s, p, AlphaSet)
      cands == {c \in (2..3) \X (5..10) :
                  /\ c[1] <= la
                  /\ c[2] <= RunLen(s, p + c[1], DigitCh)
                  /\ WordBoundary(s, p + c[1] + c[2])}
  IN IF ~WordBoundary(s, p) \/ cands = {} THEN <<0, 0>>
     ELSE CHOOSE c \in cands :
            \A d \in cands : d[1] < c[1] \/ (d[1] = c[1] /\ d[2] <= c[2])

RECURSIVE partNumberPatternMatches(_, _)
partNumberPatternMatches(s, p) ==
  IF p > Len(s) THEN <<>>
  ELSE LET m == partNumberPatternAt(s, p)
       IN IF m[1] = 0 THEN partNumberPatternMatches(s, p + 1)
          ELSE <<[prefix |-> SubSeq(s, p, p + m[1] - 1),
                  digits |-> SubSeq(s, p + m[1], p + m[1] + m[2] - 1)]>>
               \o partNumberPatternMatches(s, p + m[1] + m[2])

\* /(?:PS|ps|part\s*)?(\d{5,10})/gi at p: <<length of the optional group,
\* digits>>, <<-1, 0>> when none
spacedPatternAt(s, p) ==
  LET low == toLowerCase(SubSeq(s, p, Min(Len(s), p + 3)))
      ps == IF startsWith(low, <<"p", "s">>) THEN {2} ELSE {}
      part == IF startsWith(low, <<"p", "a", "r", "t">>)
              THEN {4 + w : w \in 0..RunLen(s, p + 4, SpaceSet)} ELSE {}
      ok(g) == RunLen(s, p + g, DigitCh) >= 5
      digits(g) == Min(10, RunLen(s, p + g, DigitCh))
  IN IF \E g \in ps : ok(g) THEN <<2, digits(2)>>
     ELSE IF \E g \in part : ok(g)
          THEN LET g == CHOOSE x \in part : ok(x) /\ \A y \in part : ok(y) => y <= x
               IN <<g, digits(g)>>
     ELSE IF ok(0) THEN <<0, digits(0)>>
     ELSE <<-1, 0>>

RECURSIVE spacedPatternMatches(_, _)
spacedPatternMatches(s, p) ==
  IF p > Len(s) THEN <<>>
  ELSE LET m == spacedPatternAt(s, p)
       IN IF m[1] < 0 THEN spacedPatternMatches(s, p + 1)
          ELSE <<SubSeq(s, p + m[1], p + m[1] + m[2] - 1)>>
               \o spacedPatternMatches(s, p + m[1] + m[2])

\* /\b([A-Z]{2,4}[\d-]+[A-Z0-9-]*)\b/gi at p: the length of the match, 0 when none
alphaPatternAt(s, p) ==
  LET la == RunLen(s, p, AlphaSet)
      cands ==
        UNION {UNION {{<<k, m, n>> :
                         n \in {x \in 0..RunLen(s, p + k + m, AlnumDashSet) :
                                  WordBoundary(s, p + k + m + x)}} :
                      m \in 1..RunLen(s, p + k, DigitDashSet)} :
               k \in 2..Min(4, la)}
      best == CHOOSE c \in cands :
                \A d \in cands :
                  \/ d[1] < c[1]
                  \/ (d[1] = c[1] /\ d[2] < c[2])
                  \/ (d[1] = c[1] /\ d[2] = c[2] /\ d[3] <= c[3])
  IN IF ~WordBoundary(s, p) \/ la < 2 \/ cands = {} THEN 0
     ELSE best[1] + best[2] + best[3]

RECURSIVE alphaPatternMatches(_, _)
alphaPatternMatches(s, p) ==
  IF p > Len(s) THEN <<>>
  ELSE LET n == alphaPatternAt(s, p)
       IN IF n = 0 THEN alphaPatternMatches(s, p + 1)
          ELSE <<SubSeq(s, p, p + n - 1)>> \o alphaPatternMatches(s, p + n)

\* /\b(\d{8,12})\b/g at p: the length of the match, 0 when none
numericPatternAt(s, p) ==
  LET ld == RunLen(s, p, DigitCh)
      cands == {n \in 8..12 : n <= ld /\ WordBoundary(s, p + n)}
  IN IF ~WordBoundary(s, p) \/ cands = {} THEN 0
     ELSE CHOOSE n \in cands : \A d \in cands : d <= n

RECURSIVE numericPatternMatches(_, _)
numericPatternMatches(s, p) ==
  IF p > Len(s) THEN <<>>
  ELSE LET n == numericPatternAt(s, p)
       IN IF n = 0 THEN numericPatternMatches(s, p + 1)
          ELSE <<SubSeq(s, p, p + n - 1)>> \o numericPatternMatches(s, p + n)

(***************************************************************************)
(* Entity extractors.                                                      *)
(***************************************************************************)

\* The second loop of extractPartNumbers: a bare digit run becomes PS<digits>
\* unless that exact string is already in the list
RECURSIVE addSpacedMatches(_, _)
addSpacedMatches(partNumbers, digitRuns) ==
  IF digitRuns = <<>> THEN partNumbers
  ELSE LET digits == Head(digitRuns)
           fullNumber == <<"P", "S">> \o digits
       IN addSpacedMatches(
            IF ~arrayIncludes(partNumbers, fullNumber) /\ Len(digits) >= 5 /\ Len(digits) <= 10
            THEN Append(partNumbers, fullNumber) ELSE partNumbers,
            Tail(digitRuns))

extractPartNumbers(query) ==
  LET matches == partNumberPatternMatches(query, 1)
      validPrefixes == {<<"P", "S">>, <<"A", "P">>, <<"W", "P">>, <<"W">>,
                        <<"E", "D", "R">>, <<"D", "A">>}
      keep(m) == toUpperCase(m.prefix) \in validPrefixes \/ Len(m.digits) >= 5
      kept == SelectSeq(matches, keep)
      prefixed == [i \in 1..Len(kept) |-> toUpperCase(kept[i].prefix) \o kept[i].digits]
  IN uniqueInOrder(addSpacedMatches(prefixed, spacedPatternMatches(query, 1)))

\* Faulty variant of filterModelNumbers: every candidate is kept
filterModelNumbersKeepAll(modelNumbers, partNumbers) == modelNumbers

\* The filter of extractModelNumbers: a candidate is dropped when it is a part
\* number, starts with PS, or contains or is contained in a part number
filterModelNumbers(modelNumbers, partNumbers) ==
  LET keep(m) ==
        /\ toUpperCase(m) \notin {toUpperCase(partNumbers[i]) : i \in 1..Len(partNumbers)}
        /\ ~startsWith(toUpperCase(m), <<"P", "S">>)
        /\ ~\E i \in 1..Len(partNumbers) :
              \/ includes(toUpperCase(m), toUpperCase(partNumbers[i]))
              \/ includes(toUpperCase(partNumbers[i]), toUpperCase(m))
  IN SelectSeq(modelNumbers, keep)

extractModelNumbers(query) ==
  filterModelNumbers(alphaPatternMatches(query, 1) \o numericPatternMatches(query, 1),
                     extractPartNumbers(query))

BRAND_VOCABULARY ==
  <<<<"w", "h", "i", "r", "l", "p", "o", "o", "l">>,
    <<"f", "r", "i", "g", "i", "d", "a", "i", "r", "e">>,
    <<"g", "e">>,
    <<"g", "e", "n", "e", "r", "a", "l", " ", "e", "l", "e", "c", "t", "r", "i", "c">>,
    <<"s", "a", "m", "s", "u", "n", "g">>,
    <<"l", "g">>,
    <<"k", "i", "t", "c", "h", "e", "n", "a", "i", "d">>,
    <<"m", "a", "y", "t", "a", "g">>,
    <<"b", "o", "s", "c", "h">>,
    <<"a", "d", "m", "i", "r", "a", "l">>,
    <<"t", "a", "p", "p", "a", "n">>,
    <<"a", "m", "a", "n", "a">>,
    <<"s", "m", "e", "g">>,
    <<"m", "i", "d", "e", "a">>,
    <<"k", "e", "n", "m", "o", "r", "e">>,
    <<"e", "l", "e", "c", "t", "r", "o", "l", "u", "x">>,
    <<"h", "o", "t", "p", "o", "i", "n", "t">>,
    <<"h", "a", "i", "e", "r">>,
    <<"g", "i", "b", "s", "o", "n">>,
    <<"c", "r", "o", "s", "l", "e", "y">>,
    <<"r", "o", "p", "e", "r">>,
    <<"e", "s", "t", "a", "t", "e">>,
    <<"i", "n", "g", "l", "i", "s">>,
    <<"k", "e", "l", "v", "i", "n", "a", "t", "o", "r">>,
    <<"n", "o", "r", "g", "e">>,
    <<"c", "a", "l", "o", "r", "i", "c">>,
    <<"d", "a", "c", "o", "r">>,
    <<"g", "a", "g", "g", "e", "n", "a", "u">>,
    <<"t", "h", "e", "r", "m", "a", "d", "o", "r">>,
    <<"u", "n", "i">>,
    <<"s", "h", "a", "r", "p">>,
    <<"r", "c", "a">>,
    <<"b", "l", "o", "m", "b", "e", "r", "g">>,
    <<"b", "e", "k", "o">>>>

extractBrands(query) ==
  LET lowerQuery == toLowerCase(query)
      found(brand) == includes(lowerQuery, brand)
  IN SelectSeq(BRAND_VOCABULARY, found)

(***************************************************************************)
(* Intent classification.                                                  *)
(***************************************************************************)
QUERY_PATTERNS ==
  <<
    [type |-> "compatibility", requires |-> {"partNumber"},
     keywords |-> <<<<"c", "o", "m", "p", "a", "t", "i", "b", "l", "e">>,
                   <<"f", "i", "t">>,
                   <<"w", "o", "r", "k", " ", "w", "i", "t", "h">>>>,
     useRegex |-> TRUE, useRAG |-> TRUE, confidence |-> "high"],
    [type |-> "installation", requires |-> {"partNumber"},
     keywords |-> <<<<"i", "n", "s", "t", "a", "l", "l">>,
                   <<"h", "o", "w", " ", "t", "o">>,
                   <<"s", "t", "e", "p", "s">>>>,
     useRegex |-> TRUE, useRAG |-> TRUE, confidence |-> "high"],
    [type |-> "part_lookup", requires |-> {"partNumber"},
     keywords |-> <<>>,
     useRegex |-> TRUE, useRAG |-> TRUE, confidence |-> "high"],
    [type |-> "product_search", requires |-> {},
     keywords |-> <<<<"f", "i", "n", "d">>,
                   <<"s", "e", "a", "r", "c", "h">>,
                   <<"s", "h", "o", "w">>,
                   <<"l", "i", "s", "t">>,
                   <<"n", "e", "e", "d">>,
                   <<"l", "o", "o", "k", "i", "n", "g", " ", "f", "o", "r">>,
                   <<"b", "u", "y">>,
                   <<"o", "r", "d", "e", "r">>,
                   <<"p", "a", "r", "t", "s", " ", "f", "o", "r">>,
                   <<"p", "a", "r", "t", " ", "f", "o", "r">>>>,
     useRegex |-> FALSE, useRAG |-> TRUE, confidence |-> "medium"],
    [type |-> "brand_query", requires |-> {},
     keywords |-> <<<<"b", "r", "a", "n", "d">>,
                   <<"w", "h", "i", "r", "l", "p", "o", "o", "l">>,
                   <<"g", "e">>,
                   <<"s", "a", "m", "s", "u", "n", "g">>,
                   <<"l", "g">>,
                   <<"m", "a", "y", "t", "a", "g">>,
                   <<"k", "i", "t", "c", "h", "e", "n", "a", "i", "d">>,
                   <<"f", "r", "i", "g", "i", "d", "a", "i", "r", "e">>,
                   <<"k", "e", "n", "m", "o", "r", "e">>,
                   <<"b", "o", "s", "c", "h">>>>,
     useRegex |-> FALSE, useRAG |-> TRUE, confidence |-> "medium"],
    [type |-> "troubleshooting", requires |-> {},
     keywords |-> <<<<"n", "o", "t", " ", "w", "o", "r", "k", "i", "n", "g">>,
                   <<"b", "r", "o", "k", "e", "n">>,
                   <<"f", "i", "x">>,
                   <<"t", "r", "o", "u", "b", "l", "e", "s", "h", "o", "o", "t">>,
                   <<"p", "r", "o", "b", "l", "e", "m">>,
                   <<"l", "e", "a", "k", "i", "n", "g">>,
                   <<"n", "o", "i", "s", "e">>,
                   <<"i", "s", "s", "u", "e">>>>,
     useRegex |-> FALSE, useRAG |-> TRUE, confidence |-> "medium"],
    [type |-> "installation", requires |-> {},
     keywords |-> <<<<"i", "n", "s", "t", "a", "l", "l">>,
                   <<"h", "o", "w", " ", "t", "o">>,
                   <<"r", "e", "p", "l", "a", "c", "e">>>>,
     useRegex |-> FALSE, useRAG |-> TRUE, confidence |-> "medium"],
    [type |-> "model_query", requires |-> {"modelNumber"},
     keywords |-> <<>>,
     useRegex |-> TRUE, useRAG |-> TRUE, confidence |-> "high"],
    [type |-> "help", requires |-> {},
     keywords |-> <<<<"h", "e", "l", "p">>,
                   <<"h", "o", "w", " ", "d", "o", " ", "i">>,
                   <<"h", "o", "w", " ", "c", "a", "n", " ", "i">>,
                   <<"w", "h", "e", "r", "e">>,
                   <<"w", "h", "a", "t", " ", "i", "s">>,
                   <<"e", "x", "p", "l", "a", "i", "n">>,
                   <<"t", "e", "l", "l", " ", "m", "e", " ", "a", "b", "o", "u", "t">>,
                   <<"f", "i", "g", "u", "r", "e", " ", "o", "u", "t">>>>,
     useRegex |-> FALSE, useRAG |-> FALSE, confidence |-> "low"],
    [type |-> "general", requires |-> {},
     keywords |-> <<>>,
     useRegex |-> FALSE, useRAG |-> FALSE, confidence |-> "low"]
  >>

\* Faulty variant of matchesPattern: a row with no keywords is rejected
matchesPatternNeedsKeyword(lowerQuery, pattern, hasPartNumber, hasModelNumber) ==
  IF "partNumber" \in pattern.requires /\ ~hasPartNumber THEN FALSE
  ELSE IF "modelNumber" \in pattern.requires /\ ~hasModelNumber THEN FALSE
  ELSE \E k \in 1..Len(pattern.keywords) : includes(lowerQuery, pattern.keywords[k])

matchesPattern(lowerQuery, pattern, hasPartNumber, hasModelNumber) ==
  IF "partNumber" \in pattern.requires /\ ~hasPartNumber THEN FALSE
  ELSE IF "modelNumber" \in pattern.requires /\ ~hasModelNumber THEN FALSE
  ELSE IF Len(pattern.keywords) > 0
       THEN \E k \in 1..Len(pattern.keywords) : includes(lowerQuery, pattern.keywords[k])
  ELSE TRUE

\* Faulty variant of scanPatterns: the loop does not stop at the first accepted
\* row, and the last accepted row is kept
RECURSIVE scanPatternsKeepLast(_, _, _, _)
scanPatternsKeepLast(lowerQuery, hasPartNumber, hasModelNumber, i) ==
  IF i > Len(QUERY_PATTERNS) THEN 0
  ELSE IF scanPatternsKeepLast(lowerQuery, hasPartNumber, hasModelNumber, i + 1) # 0
       THEN scanPatternsKeepLast(lowerQuery, hasPartNumber, hasModelNumber, i + 1)
  ELSE IF matchesPattern(lowerQuery, QUERY_PATTERNS[i], hasPartNumber, hasModelNumber) THEN i
  ELSE 0

\* The for loop of analyzeQuery: the index of the first accepted row, 0 when
\* the loop ends with matchedPattern still null
RECURSIVE scanPatterns(_, _, _, _)
scanPatterns(lowerQuery, hasPartNumber, hasModelNumber, i) ==
  IF i > Len(QUERY_PATTERNS) THEN 0
  ELSE IF matchesPattern(lowerQuery, QUERY_PATTERNS[i], hasPartNumber, hasModelNumber) THEN i
  ELSE scanPatterns(lowerQuery, hasPartNumber, hasModelNumber, i + 1)

\* Faulty variant of analysisOf: the policy is read from the last row whatever
\* row the loop stopped at
analysisOfLastRowPolicy(partNumbers, modelNumbers, brands, scanned) ==
  [hasPartNumber |-> Len(partNumbers) > 0,
   hasModelNumber |-> Len(modelNumbers) > 0,
   hasBrand |-> Len(brands) > 0,
   partNumbers |-> partNumbers,
   modelNumbers |-> modelNumbers,
   brands |-> brands,
   queryType |-> QUERY_PATTERNS[IF scanned # 0 THEN scanned ELSE Len(QUERY_PATTERNS)].type,
   useRegex |-> QUERY_PATTERNS[Len(QUERY_PATTERNS)].useRegex,
   useRAG |-> QUERY_PATTERNS[Len(QUERY_PATTERNS)].useRAG,
   confidence |-> QUERY_PATTERNS[IF scanned # 0 THEN scanned ELSE Len(QUERY_PATTERNS)].confidence]

\* The object analyzeQuery returns, given the extracted entities and the row
\* its loop stopped at (0: the loop ended with matchedPattern still null, and
\* the branch after the loop takes the last row)
analysisOf(partNumbers, modelNumbers, brands, scanned) ==
  [hasPartNumber |-> Len(partNumbers) > 0,
   hasModelNumber |-> Len(modelNumbers) > 0,
   hasBrand |-> Len(brands) > 0,
   partNumbers |-> partNumbers,
   modelNumbers |-> modelNumbers,
   brands |-> brands,
   queryType |-> QUERY_PATTERNS[IF scanned # 0 THEN scanned ELSE Len(QUERY_PATTERNS)].type,
   useRegex |-> QUERY_PATTERNS[IF scanned # 0 THEN scanned ELSE Len(QUERY_PATTERNS)].useRegex,
   useRAG |-> QUERY_PATTERNS[IF scanned # 0 THEN scanned ELSE Len(QUERY_PATTERNS)].useRAG,
   confidence |-> QUERY_PATTERNS[IF scanned # 0 THEN scanned ELSE Len(QUERY_PATTERNS)].confidence]

classify(query, partNumbers, modelNumbers, brands) ==
  analysisOf(partNumbers, modelNumbers, brands,
             scanPatterns(toLowerCase(query), Len(partNumbers) > 0, Len(modelNumbers) > 0, 1))

analyzeQuery(query) ==
  classify(query, extractPartNumbers(query), extractModelNumbers(query), extractBrands(query))

(***************************************************************************)
(* The catalog held by the vector store, and the queries.                  *)
(***************************************************************************)
MaxTokens == 2
MaxScore == 1

\* formatProductsForChromaDB: the id of a record is its part number in lower
\* case with every character outside [a-z0-9] replaced by "_"
idOfPartNumber(partNumber) ==
  LET low == toLowerCase(partNumber)
  IN [i \in 1..Len(low) |-> IF low[i] \in LowerSet \cup DigitCh THEN low[i] ELSE "_"]

Catalog ==
  <<[partNumber |-> <<"P", "S", "1", "1", "7", "5", "2", "7", "7", "8">>,
     brand |-> <<"W", "h", "i", "r", "l", "p", "o", "o", "l">>,
     compatibleModels |-> <<<<"W", "D", "T", "7", "8", "0", "S", "A", "E", "M", "1">>>>,
     replacementParts |-> <<<<"A", "P", "6", "0", "0", "6", "0", "5", "8">>>>],
    [partNumber |-> <<"P", "S", "6", "0", "0", "6", "0", "5", "8">>,
     brand |-> <<"G", "E">>,
     compatibleModels |-> <<<<"1", "0", "6", "4", "0", "2", "6", "2", "0", "1", "0">>>>,
     replacementParts |-> <<>>],
    [partNumber |-> <<"P", "S", "1", "2", "3", "6", "4", "1", "9", "9">>,
     brand |-> <<"K", "e", "n", "m", "o", "r", "e">>,
     compatibleModels |-> <<<<"w", "d", "t", "7", "8", "0", "s", "a", "e", "m", "1">>, <<"1", "0", "6", "4", "0", "2", "6", "2", "0", "1", "0">>>>,
     replacementParts |-> <<<<"a", "p", "6", "0", "0", "6", "0", "5", "8">>>>]>>

Records == 1..Len(Catalog)

\* The id, the lower-cased brand and the upper-cased compatible models of every
\* record, as the comparisons of the source read them
recordId == [r \in Records |-> idOfPartNumber(Catalog[r].partNumber)]
recordBrandLower == [r \in Records |-> toLowerCase(Catalog[r].brand)]
recordModelsUpper ==
  [r \in Records |->
     {toUpperCase(Catalog[r].compatibleModels[k]) : k \in 1..Len(Catalog[r].compatibleModels)}]

\* A result entry is a catalog record with the relevance the call attached
idOf(e) == recordId[e.rec]

\* The words the token queries are made of
Vocabulary ==
  <<<<"P", "S", "1", "1", "7", "5", "2", "7", "7", "8">>,
    <<"A", "P", "6", "0", "0", "6", "0", "5", "8">>,
    <<"W", "D", "T", "7", "8", "0", "S", "A", "E", "M", "1">>,
    <<"1", "0", "6", "4", "0", "2", "6", "2", "0", "1", "0">>,
    <<"c", "o", "m", "p", "a", "t", "i", "b", "l", "e">>,
    <<"W", "h", "i", "r", "l", "p", "o", "o", "l">>,
    <<"h", "e", "l", "l", "o">>,
    <<"f", "i", "n", "d">>>>

\* Queries taken whole
Phrases ==
  {<<"W", "D", "T", "7", "8", "0", "S", "A", "E", "M", "1", " ", "W", "h", "i", "r", "l", "p", "o", "o", "l", " ", "K", "e", "n", "m", "o", "r", "e">>,
   <<"A", "P", "6", "0", "0", "6", "0", "5", "8", " ", "W", "h", "i", "r", "l", "p", "o", "o", "l", " ", "K", "e", "n", "m", "o", "r", "e">>,
   <<"i", "n", "s", "t", "a", "l", "l", " ", "P", "S", "1", "1", "7", "5", "2", "7", "7", "8">>,
   <<"h", "o", "w", " ", "t", "o", " ", "i", "n", "s", "t", "a", "l", "l">>,
   <<"h", "e", "l", "p">>,
   <<"h", "e", "l", "p", " ", "W", "D", "T", "7", "8", "0", "S", "A", "E", "M", "1">>,
   <<"I", "s", " ", "P", "S", "1", "1", "7", "5", "2", "7", "7", "8", " ", "c", "o", "m", "p", "a", "t", "i", "b", "l", "e", " ", "w", "i", "t", "h", " ", "W", "D", "T", "7", "8", "0", "S", "A", "E", "M", "1", "?">>,
   <<"i", "c", "e", " ", "m", "a", "k", "e", "r", " ", "n", "o", "t", " ", "w", "o", "r", "k", "i", "n", "g", " ", "o", "n", " ", "m", "y", " ", "W", "h", "i", "r", "l", "p", "o", "o", "l", " ", "f", "r", "i", "d", "g", "e">>}

RECURSIVE joinTokens(_)
joinTokens(ts) ==
  IF Len(ts) = 1 THEN Vocabulary[ts[1]]
  ELSE Vocabulary[ts[1]] \o <<" ">> \o joinTokens(Tail(ts))

\* The queries routeQuery is called with: up to MaxTokens words joined by
\* spaces, and the phrases
Queries ==
  {joinTokens(ts) : ts \in UNION {[1..n -> 1..Len(Vocabulary)] : n \in 1..MaxTokens}}
    \cup Phrases


(***************************************************************************)
(* The catalog collaborator (Chroma-backed store): what each call returns  *)
(* when it succeeds.                                                       *)
(***************************************************************************)
\* A record returned by a catalog fetch carries no relevance field
structured(r) == [rec |-> r, relevance |-> <<>>]

RECURSIVE recordsWhere(_, _)
recordsWhere(keep, r) ==
  IF r > Len(Catalog) THEN <<>>
  ELSE (IF r \in keep THEN <<structured(r)>> ELSE <<>>) \o recordsWhere(keep, r + 1)

\* col.get({ids: [partLower]}): <<record>> with that id, <<>> for null
getProductByPartNumber(partNumber) ==
  LET partLower == idOfPartNumber(partNumber)
      hit == {r \in Records : recordId[r] = partLower}
  IN IF hit = {} THEN <<>> ELSE <<structured(CHOOSE r \in hit : TRUE)>>

\* brandFilter is the empty string when the caller passes null
passesBrandFilter(r, brandFilter) ==
  (brandFilter # <<>> /\ Catalog[r].brand # <<>>)
    => includes(recordBrandLower[r], toLowerCase(brandFilter))

searchByReplacementPart(replacementPartNumber, brandFilter) ==
  LET partLower == toLowerCase(replacementPartNumber)
      matchesReplacement(r) ==
        \E k \in 1..Len(Catalog[r].replacementParts) :
          toLowerCase(Catalog[r].replacementParts[k]) = partLower
  IN recordsWhere({r \in Records : matchesReplacement(r) /\ passesBrandFilter(r, brandFilter)}, 1)

searchByCompatibleModel(modelNumber, brandFilter) ==
  LET modelUpper == toUpperCase(modelNumber)
      matchesModel(r) == modelUpper \in recordModelsUpper[r]
  IN recordsWhere({r \in Records : matchesModel(r) /\ passesBrandFilter(r, brandFilter)}, 1)

\* The vector search is a black box: it returns at most limit distinct records,
\* nearest first, each with its relevance (col.query of the Chroma-backed store)
SEARCH_LIMIT == 10

SearchOutcomes ==
  LET lens == 0..Min(SEARCH_LIMIT, Len(Catalog))
      seqs == UNION {[1..n -> [rec : Records, relevance : {<<v>> : v \in 0..MaxScore}]] :
                     n \in lens}
  IN {h \in seqs :
        /\ \A i, j \in 1..Len(h) : i # j => h[i].rec # h[j].rec
        /\ \A i \in 1..(Len(h) - 1) : h[i].relevance[1] >= h[i + 1].relevance[1]}

\* Faulty variant of searchProducts: the wrapper catches the error of the store
\* and returns []
searchProductsSwallowing(ragQuery, limit) ==
  {[failed |-> FALSE, threw |-> FALSE, hits |-> h] : h \in {x \in SearchOutcomes : Len(x) <= limit}}
    \cup {[failed |-> TRUE, threw |-> FALSE, hits |-> <<>>]}

\* searchProducts(query, limit) of the Chroma-backed wrapper: every result the
\* call can have.  The wrapper has no try: an error of the store is thrown on
searchProducts(ragQuery, limit) ==
  {[failed |-> FALSE, threw |-> FALSE, hits |-> h] : h \in {x \in SearchOutcomes : Len(x) <= limit}}
    \cup {[failed |-> TRUE, threw |-> TRUE, hits |-> <<>>]}

(***************************************************************************)
(* Filtering, deduplication and fusion.                                    *)
(***************************************************************************)
brandFilterOf(brands) == IF Len(brands) > 0 THEN brands[1] ELSE <<>>

matchesAnyBrand(e, brands) ==
  /\ Catalog[e.rec].brand # <<>>
  /\ \E k \in 1..Len(brands) : includes(recordBrandLower[e.rec], toLowerCase(brands[k]))

\* filter(p => first index with this id), and the Set-based filter: the first
\* occurrence of every id is kept
dedupById(results) ==
  LET first(i) == \A j \in 1..(i - 1) : idOf(results[j]) # idOf(results[i])
      F[k \in 0..Len(results)] ==
        IF k = 0 THEN <<>>
        ELSE IF first(k) THEN Append(F[k - 1], results[k]) ELSE F[k - 1]
  IN F[Len(results)]

\* The tail of regexLookup: brand filter, then deduplication
regexLookupReturn(results, brands) ==
  LET keep(e) == matchesAnyBrand(e, brands)
      filteredResults == IF Len(brands) > 0 THEN SelectSeq(results, keep) ELSE results
  IN dedupById(filteredResults)

\* The tail of the semantic step of routeQuery
ragResultsOf(ragResults, brands) ==
  LET keep(e) == matchesAnyBrand(e, brands)
      filtered == IF Len(brands) > 0 /\ Len(ragResults) > 0
                  THEN SelectSeq(ragResults, keep) ELSE ragResults
  IN dedupById(filtered)

\* (p.relevance || 0)
relevanceOrZero(e) == IF e.relevance = <<>> THEN 0 ELSE e.relevance[1]

matchesModelOf(e, modelNumbers) ==
  \E i \in 1..Len(modelNumbers) : toUpperCase(modelNumbers[i]) \in recordModelsUpper[e.rec]

\* Faulty variant of compare: the model-compatibility rule is missing
compareWithoutModelRule(a, b, regex, analysis_) ==
  LET aIsExact == \E i \in 1..Len(regex) : idOf(regex[i]) = idOf(a)
      bIsExact == \E i \in 1..Len(regex) : idOf(regex[i]) = idOf(b)
  IN IF aIsExact /\ ~bIsExact THEN -1
     ELSE IF ~aIsExact /\ bIsExact THEN 1
     ELSE relevanceOrZero(b) - relevanceOrZero(a)

\* Faulty variant of compare: the relevance difference is taken the other way
compareAscendingRelevance(a, b, regex, analysis_) ==
  LET aIsExact == \E i \in 1..Len(regex) : idOf(regex[i]) = idOf(a)
      bIsExact == \E i \in 1..Len(regex) : idOf(regex[i]) = idOf(b)
      aMatchesModel == matchesModelOf(a, analysis_.modelNumbers)
      bMatchesModel == matchesModelOf(b, analysis_.modelNumbers)
  IN IF aIsExact /\ ~bIsExact THEN -1
     ELSE IF ~aIsExact /\ bIsExact THEN 1
     ELSE IF ~aIsExact /\ ~bIsExact /\ analysis_.hasModelNumber /\ aMatchesModel /\ ~bMatchesModel
          THEN -1
     ELSE IF ~aIsExact /\ ~bIsExact /\ analysis_.hasModelNumber /\ ~aMatchesModel /\ bMatchesModel
          THEN 1
     ELSE relevanceOrZero(a) - relevanceOrZero(b)

\* Faulty variant of compare: an exact match sorts first without a look at the
\* other entry
compareExactAlwaysFirst(a, b, regex, analysis_) ==
  LET aIsExact == \E i \in 1..Len(regex) : idOf(regex[i]) = idOf(a)
      bIsExact == \E i \in 1..Len(regex) : idOf(regex[i]) = idOf(b)
      aMatchesModel == matchesModelOf(a, analysis_.modelNumbers)
      bMatchesModel == matchesModelOf(b, analysis_.modelNumbers)
  IN IF aIsExact THEN -1
     ELSE IF bIsExact THEN 1
     ELSE IF analysis_.hasModelNumber /\ aMatchesModel /\ ~bMatchesModel THEN -1
     ELSE IF analysis_.hasModelNumber /\ ~aMatchesModel /\ bMatchesModel THEN 1
     ELSE relevanceOrZero(b) - relevanceOrZero(a)

\* Faulty variant of compare: the relevance alone decides
compareByRelevanceOnly(a, b, regex, analysis_) ==
  relevanceOrZero(b) - relevanceOrZero(a)

\* Faulty variant of compare: the exact-match rule is missing
compareWithoutExactRule(a, b, regex, analysis_) ==
  LET aMatchesModel == matchesModelOf(a, analysis_.modelNumbers)
      bMatchesModel == matchesModelOf(b, analysis_.modelNumbers)
  IN IF analysis_.hasModelNumber /\ aMatchesModel /\ ~bMatchesModel THEN -1
     ELSE IF analysis_.hasModelNumber /\ ~aMatchesModel /\ bMatchesModel THEN 1
     ELSE relevanceOrZero(b) - relevanceOrZero(a)

\* The comparator of combinedResults.sort: negative when a sorts before b
compare(a, b, regex, analysis_) ==
  LET aIsExact == \E i \in 1..Len(regex) : idOf(regex[i]) = idOf(a)
      bIsExact == \E i \in 1..Len(regex) : idOf(regex[i]) = idOf(b)
      aMatchesModel == matchesModelOf(a, analysis_.modelNumbers)
      bMatchesModel == matchesModelOf(b, analysis_.modelNumbers)
  IN IF aIsExact /\ ~bIsExact THEN -1
     ELSE IF ~aIsExact /\ bIsExact THEN 1
     ELSE IF ~aIsExact /\ ~bIsExact /\ analysis_.hasModelNumber /\ aMatchesModel /\ ~bMatchesModel
          THEN -1
     ELSE IF ~aIsExact /\ ~bIsExact /\ analysis_.hasModelNumber /\ ~aMatchesModel /\ bMatchesModel
          THEN 1
     ELSE relevanceOrZero(b) - relevanceOrZero(a)

\* Faulty variant of insertSorted: x goes before the elements it ties with
RECURSIVE insertBeforeTies(_, _, _, _)
insertBeforeTies(sorted, x, regex, analysis_) ==
  IF sorted = <<>> THEN <<x>>
  ELSE IF compare(x, Head(sorted), regex, analysis_) <= 0 THEN <<x>> \o sorted
  ELSE <<Head(sorted)>> \o insertBeforeTies(Tail(sorted), x, regex, analysis_)

\* Array.prototype.sort is stable: x goes after every element that does not
\* sort after it
RECURSIVE insertSorted(_, _, _, _)
insertSorted(sorted, x, regex, analysis_) ==
  IF sorted = <<>> THEN <<x>>
  ELSE IF compare(x, Head(sorted), regex, analysis_) < 0 THEN <<x>> \o sorted
  ELSE <<Head(sorted)>> \o insertSorted(Tail(sorted), x, regex, analysis_)

RECURSIVE sortResults(_, _, _)
sortResults(results, regex, analysis_) ==
  IF results = <<>> THEN <<>>
  ELSE insertSorted(sortResults(SubSeq(results, 1, Len(results) - 1), regex, analysis_),
                    results[Len(results)], regex, analysis_)

\* Faulty variant of combineResults: the semantic list is concatenated first
combineResultsSemanticFirst(regex, rag, analysis_) ==
  sortResults(dedupById(rag \o regex), regex, analysis_)

\* Faulty variant of combineResults: the concatenation is not deduplicated
combineResultsKeepAll(regex, rag, analysis_) ==
  sortResults(regex \o rag, regex, analysis_)

\* Step 3 of routeQuery: concatenate, deduplicate, sort
combineResults(regex, rag, analysis_) ==
  sortResults(dedupById(regex \o rag), regex, analysis_)

(***************************************************************************)
(* routeQuery as a state machine.  One call of routeQuery runs from        *)
(* "idle" to "done"; pc names the await the call is suspended at.  Every   *)
(* collaborator call either returns or fails, and calls records them.      *)
(***************************************************************************)
VARIABLES
  pc,               \* the await point of the call
  query,            \* the query passed to routeQuery
  analysis,         \* analyzeQuery(query)
  scanned,          \* the row the scan of analyzeQuery stopped at (0: none)
  idx,              \* the index of the current loop over part or model numbers
  acc,              \* results of regexLookup, or ragResults of routeQuery, so far
  regexResults,     \* results.regexResults
  ragResults,       \* results.ragResults
  combinedResults,  \* results.combinedResults
  outcome,          \* "pending", "returned" (results) or "rejected" (an error)
  calls,            \* the collaborator calls made, in order
  context,          \* what formatContextForLLM returned (<<>>: null, or no call)
  analyses,         \* what the calls of analyzeQuery made so far returned, in order
  suspended,        \* the locals of the routeQuery calls waiting at an await
  conversations,    \* the Map of the chat endpoint: conversationId -> messages
  arrays,           \* the message arrays allocated by the chat endpoint
  requests          \* the locals of the POST /api/chat requests in flight

vars == <<pc, query, analysis, scanned, idx, acc, regexResults,
          ragResults, combinedResults, outcome, calls, context,
          analyses, suspended, conversations, arrays, requests>>

\* What a call of routeQuery does not touch: the other calls, the log of
\* analyses and the chat endpoint
elsewhere == <<analyses, suspended, conversations, arrays, requests>>

NoAnalysis ==
  [hasPartNumber |-> FALSE, hasModelNumber |-> FALSE, hasBrand |-> FALSE,
   partNumbers |-> <<>>, modelNumbers |-> <<>>, brands |-> <<>>,
   queryType |-> "", useRegex |-> FALSE, useRAG |-> FALSE, confidence |-> ""]

Init ==
  /\ pc = "idle"
  /\ query = <<>>
  /\ analysis = NoAnalysis
  /\ scanned = 0
  /\ idx = 1
  /\ acc = <<>>
  /\ regexResults = <<>>
  /\ ragResults = <<>>
  /\ combinedResults = <<>>
  /\ outcome = "pending"
  /\ calls = <<>>
  /\ context = <<>>
  /\ analyses = <<>>
  /\ suspended = <<>>
  /\ conversations = <<>>
  /\ arrays = <<>>
  /\ requests = <<>>

\* by: the function that makes the call (regexLookup or routeQuery)
called(by, fn, arg, ok) ==
  calls' = Append(calls, [by |-> by, fn |-> fn, arg |-> arg, ok |-> ok])

\* The call is suspended at the next await
Goto(pc2, idx2, acc2, regex) ==
  /\ pc' = pc2
  /\ idx' = idx2
  /\ acc' = acc2
  /\ regexResults' = regex
  /\ UNCHANGED <<ragResults, combinedResults, outcome, context, elsewhere>>

\* Step 3 and the return of routeQuery
Finish(a, regex, rag) ==
  /\ pc' = "done"
  /\ idx' = 1
  /\ acc' = <<>>
  /\ regexResults' = regex
  /\ ragResults' = rag
  /\ combinedResults' = combineResults(regex, rag, a)
  /\ outcome' = "returned"
  /\ UNCHANGED <<context, elsewhere>>

\* An error leaves routeQuery: the promise is rejected, no results are returned
Reject ==
  /\ pc' = "done"
  /\ outcome' = "rejected"
  /\ UNCHANGED <<idx, acc, regexResults, ragResults, combinedResults, context, elsewhere>>

\* Faulty variant of shouldUseRegex: the policy of the selected row is not read
shouldUseRegexAnyIdentifier(a) == a.hasPartNumber \/ a.hasModelNumber

\* Whether routeQuery calls regexLookup (step 1)
shouldUseRegex(a) == a.useRegex /\ (a.hasPartNumber \/ a.hasModelNumber)

\* Faulty variant of EnterRag: the semantic step runs whatever the row says
EnterRagAlways(a, regex) ==
  Goto(IF a.hasModelNumber /\ Len(a.modelNumbers) > 0 THEN "rag_model" ELSE "rag_search",
       1, <<>>, regex)

\* Step 2 of routeQuery, entered with the value regexLookup returned
EnterRag(a, regex) ==
  IF a.useRAG
  THEN Goto(IF a.hasModelNumber /\ Len(a.modelNumbers) > 0 THEN "rag_model" ELSE "rag_search",
            1, <<>>, regex)
  ELSE Finish(a, regex, <<>>)

\* regexLookup after its loop over the part numbers
AfterPartNumbers(a, results) ==
  IF Len(a.modelNumbers) > 0 THEN Goto("rx_model", 1, results, <<>>)
  ELSE EnterRag(a, regexLookupReturn(results, a.brands))

\* routeQuery(q): analysis, then up to the first await
RouteStartOn(q) ==
  /\ pc = "idle"
  /\ \E a \in {analyzeQuery(q)} :
       /\ query' = q
       /\ analysis' = a
       /\ scanned' = scanPatterns(toLowerCase(q), a.hasPartNumber, a.hasModelNumber, 1)
       /\ IF shouldUseRegex(a)
          THEN IF Len(a.partNumbers) > 0 THEN Goto("rx_get", 1, <<>>, <<>>)
               ELSE AfterPartNumbers(a, <<>>)
          ELSE EnterRag(a, <<>>)
  /\ UNCHANGED calls

RouteStart == \E q \in Queries : RouteStartOn(q)

\* regexLookup: await getProductByPartNumber(partNumber) returns a record or null
GetProductReturns ==
  /\ pc = "rx_get"
  /\ LET partNumber == analysis.partNumbers[idx]
     IN /\ called("regexLookup", "getProductByPartNumber", partNumber, TRUE)
        /\ Goto("rx_repl", idx, acc \o getProductByPartNumber(partNumber), <<>>)
  /\ UNCHANGED <<query, analysis, scanned>>

\* col.get throws inside getProductByPartNumber, whose catch returns null
GetProductFails ==
  /\ pc = "rx_get"
  /\ called("regexLookup", "getProductByPartNumber", analysis.partNumbers[idx], FALSE)
  /\ Goto("rx_repl", idx, acc, <<>>)
  /\ UNCHANGED <<query, analysis, scanned>>

\* ensureCollection throws in getProductByPartNumber, outside its try: the
\* error reaches the catch of regexLookup, which returns []
GetProductThrows ==
  /\ pc = "rx_get"
  /\ called("regexLookup", "getProductByPartNumber", analysis.partNumbers[idx], FALSE)
  /\ EnterRag(analysis, <<>>)
  /\ UNCHANGED <<query, analysis, scanned>>

\* regexLookup: await searchByReplacementPart(partNumber, brandFilter) returns
ReplacementReturns ==
  /\ pc = "rx_repl"
  /\ LET partNumber == analysis.partNumbers[idx]
         results == acc \o searchByReplacementPart(partNumber, brandFilterOf(analysis.brands))
     IN /\ called("regexLookup", "searchByReplacementPart", partNumber, TRUE)
        /\ IF idx < Len(analysis.partNumbers) THEN Goto("rx_get", idx + 1, results, <<>>)
           ELSE AfterPartNumbers(analysis, results)
  /\ UNCHANGED <<query, analysis, scanned>>

\* it throws: the catch of regexLookup returns []
ReplacementThrows ==
  /\ pc = "rx_repl"
  /\ called("regexLookup", "searchByReplacementPart", analysis.partNumbers[idx], FALSE)
  /\ EnterRag(analysis, <<>>)
  /\ UNCHANGED <<query, analysis, scanned>>

\* regexLookup: await searchByCompatibleModel(modelNumber, brandFilter) returns
RegexModelReturns ==
  /\ pc = "rx_model"
  /\ LET modelNumber == analysis.modelNumbers[idx]
         results == acc \o searchByCompatibleModel(modelNumber, brandFilterOf(analysis.brands))
     IN /\ called("regexLookup", "searchByCompatibleModel", modelNumber, TRUE)
        /\ IF idx < Len(analysis.modelNumbers) THEN Goto("rx_model", idx + 1, results, <<>>)
           ELSE EnterRag(analysis, regexLookupReturn(results, analysis.brands))
  /\ UNCHANGED <<query, analysis, scanned>>

RegexModelThrows ==
  /\ pc = "rx_model"
  /\ called("regexLookup", "searchByCompatibleModel", analysis.modelNumbers[idx], FALSE)
  /\ EnterRag(analysis, <<>>)
  /\ UNCHANGED <<query, analysis, scanned>>

\* routeQuery, step 2: await searchByCompatibleModel(modelNumber, brandFilter)
RagModelReturns ==
  /\ pc = "rag_model"
  /\ LET modelNumber == analysis.modelNumbers[idx]
         rag == acc \o searchByCompatibleModel(modelNumber, brandFilterOf(analysis.brands))
     IN /\ called("routeQuery", "searchByCompatibleModel", modelNumber, TRUE)
        /\ IF idx < Len(analysis.modelNumbers)
           THEN Goto("rag_model", idx + 1, rag, regexResults)
           ELSE Goto("rag_search", idx, rag, regexResults)
  /\ UNCHANGED <<query, analysis, scanned>>

\* it throws: nothing in routeQuery catches
RagModelThrows ==
  /\ pc = "rag_model"
  /\ called("routeQuery", "searchByCompatibleModel", analysis.modelNumbers[idx], FALSE)
  /\ Reject
  /\ UNCHANGED <<query, analysis, scanned>>

\* The string routeQuery searches for: the query, then the extracted brands
RECURSIVE joinWithSpaces(_)
joinWithSpaces(strs) ==
  IF strs = <<>> THEN <<>>
  ELSE IF Len(strs) = 1 THEN strs[1]
  ELSE strs[1] \o <<" ">> \o joinWithSpaces(Tail(strs))

ragQueryOf(q, a) ==
  IF Len(a.brands) > 0 THEN q \o <<" ">> \o joinWithSpaces(a.brands) ELSE q

\* routeQuery, step 2: await searchProducts(ragQuery, 10), then the brand
\* filter, the deduplication and step 3
RagSearch ==
  /\ pc = "rag_search"
  /\ \E r \in searchProducts(ragQueryOf(query, analysis), SEARCH_LIMIT) :
       /\ called("routeQuery", "searchProducts", ragQueryOf(query, analysis), ~r.failed)
       /\ IF r.threw
          THEN Reject
          ELSE Finish(analysis, regexResults, ragResultsOf(acc \o r.hits, analysis.brands))
  /\ UNCHANGED <<query, analysis, scanned>>

Next ==
  \/ RouteStart
  \/ GetProductReturns
  \/ GetProductFails
  \/ GetProductThrows
  \/ ReplacementReturns
  \/ ReplacementThrows
  \/ RegexModelReturns
  \/ RegexModelThrows
  \/ RagModelReturns
  \/ RagModelThrows
  \/ RagSearch

Spec == Init /\ [][Next]_vars

(***************************************************************************)
(* formatContextForLLM(routerResults, userQuery).  The text is modelled    *)
(* line by line: tag is the fixed wording of the line, n the number the    *)
(* line prints (0: none), text the value it interpolates.  null is <<>>.   *)
(***************************************************************************)
\* Which records carry installation and troubleshooting instructions
Guides ==
  <<[installation |-> TRUE, troubleshooting |-> FALSE],
    [installation |-> FALSE, troubleshooting |-> TRUE],
    [installation |-> TRUE, troubleshooting |-> TRUE]>>

line(tag, n, text) == [tag |-> tag, n |-> n, text |-> text]

\* list.join(', ')
RECURSIVE joinWithCommas(_)
joinWithCommas(strs) ==
  IF strs = <<>> THEN <<>>
  ELSE IF Len(strs) = 1 THEN strs[1]
  ELSE strs[1] \o <<",", " ">> \o joinWithCommas(Tail(strs))

\* list.find(s => searched.includes(s.toUpperCase())), <<>> when none matches
findSearched(list, searched) ==
  LET hits == {k \in 1..Len(list) :
                 \E j \in 1..Len(searched) : toUpperCase(list[k]) = toUpperCase(searched[j])}
  IN IF hits = {} THEN <<>> ELSE <<list[CHOOSE k \in hits : \A m \in hits : k <= m]>>

\* The routing metadata that follows the heading
routingMetadata(routerResults) ==
  LET a == routerResults.analysis
  IN IF a.useRegex /\ Len(routerResults.regexResults) > 0
     THEN (IF a.hasPartNumber
           THEN <<line("[PART NUMBER SEARCH]", 0, joinWithCommas(a.partNumbers))>> ELSE <<>>)
          \o (IF a.hasModelNumber
              THEN <<line("[MODEL NUMBER SEARCH]", 0, joinWithCommas(a.modelNumbers))>> ELSE <<>>)
          \o <<line("[EXACT MATCH FOUND]", 0, <<>>)>>
     ELSE IF a.useRAG /\ Len(routerResults.ragResults) > 0
     THEN IF a.hasModelNumber
          THEN <<line("[MODEL COMPATIBILITY SEARCH]", 0, joinWithCommas(a.modelNumbers))>>
          ELSE <<line("[SEMANTIC MATCH]", 0, <<>>)>>
     ELSE <<>>

\* The body of combinedResults.forEach((product, index) => ...)
productBlock(routerResults, product, index) ==
  LET a == routerResults.analysis
      regex == routerResults.regexResults
      p == Catalog[product.rec]
      isExactMatch == \E k \in 1..Len(regex) : idOf(regex[k]) = idOf(product)
      matchingReplacement == findSearched(p.replacementParts, a.partNumbers)
      matchingModel == findSearched(p.compatibleModels, a.modelNumbers)
  IN <<line(IF isExactMatch THEN "--- [EXACT MATCH] Product" ELSE "--- [SEMANTIC MATCH] Product",
            index, <<>>)>>
     \o (IF matchingReplacement # <<>> /\ isExactMatch
         THEN <<line("[REPLACEMENT PART MATCH]", 0, matchingReplacement[1])>> ELSE <<>>)
     \o (IF matchingModel # <<>>
         THEN <<line("[MODEL COMPATIBILITY MATCH]", 0, matchingModel[1])>> ELSE <<>>)
     \o <<line("Part Number:", 0, p.partNumber),
          line("Name:", product.rec, <<>>),
          line("Description:", product.rec, <<>>),
          line("Category:", product.rec, <<>>),
          line("Brand:", 0, p.brand)>>
     \o (IF Len(p.replacementParts) > 0
         THEN <<line("Replaces Part Numbers:", 0, joinWithCommas(p.replacementParts))>> ELSE <<>>)
     \o (IF Len(p.compatibleModels) > 0
         THEN <<line("Compatible Models:", 0, joinWithCommas(p.compatibleModels))>> ELSE <<>>)
     \o <<line("Price:", product.rec, <<>>),
          line("In Stock:", product.rec, <<>>),
          line("Product URL:", product.rec, <<>>)>>
     \o (IF a.queryType = "installation" /\ Guides[product.rec].installation
         THEN <<line("Installation Instructions:", product.rec, <<>>)>> ELSE <<>>)
     \o (IF a.queryType = "troubleshooting" /\ Guides[product.rec].troubleshooting
         THEN <<line("Troubleshooting:", product.rec, <<>>)>> ELSE <<>>)

RECURSIVE productBlocks(_, _, _)
productBlocks(routerResults, results, index) ==
  IF index > Len(results) THEN <<>>
  ELSE productBlock(routerResults, results[index], index)
         \o productBlocks(routerResults, results, index + 1)

\* Faulty variant of formatContextForLLM: only the structured entries get a
\* block
formatContextForLLMExactOnly(routerResults, userQuery) ==
  IF Len(routerResults.combinedResults) = 0 THEN <<>>
  ELSE <<line("RELEVANT PRODUCT INFORMATION FROM PARTSELECT DATABASE:", 0, <<>>)>>
       \o routingMetadata(routerResults)
       \o <<line("Use this information to provide accurate, specific answers.", 0, <<>>)>>
       \o productBlocks(routerResults,
                        SelectSeq(routerResults.combinedResults,
                                  LAMBDA e : \E k \in 1..Len(routerResults.regexResults) :
                                               idOf(routerResults.regexResults[k]) = idOf(e)), 1)
       \o <<line("IMPORTANT: When answering, prioritize the specific information above", 0, <<>>)>>

formatContextForLLM(routerResults, userQuery) ==
  IF Len(routerResults.combinedResults) = 0 THEN <<>>
  ELSE <<line("RELEVANT PRODUCT INFORMATION FROM PARTSELECT DATABASE:", 0, <<>>)>>
       \o routingMetadata(routerResults)
       \o <<line("Use this information to provide accurate, specific answers.", 0, <<>>)>>
       \o productBlocks(routerResults, routerResults.combinedResults, 1)
       \o <<line("IMPORTANT: When answering, prioritize the specific information above", 0, <<>>)>>

\* The object routeQuery returns
routerResultsOf(a, regex, rag, combined) ==
  [analysis |-> a, regexResults |-> regex, ragResults |-> rag, combinedResults |-> combined]

(***************************************************************************)
(* formatContextForLLM applied to router results drawn from bounded sets:  *)
(* the analysis of any query, any list of distinct records as              *)
(* combinedResults, any prefix of it as regexResults, the rest or nothing   *)
(* as ragResults.                                                          *)
(***************************************************************************)
\* The lists of distinct records
RecordLists ==
  {s \in UNION {[1..n -> Records] : n \in 0..Len(Catalog)} :
     \A i, j \in 1..Len(s) : i # j => s[i] # s[j]}

FormatInput ==
  /\ pc = "idle"
  /\ \E q \in Queries :
       \E a \in {analyzeQuery(q)}, recs \in RecordLists, withRag \in BOOLEAN :
         \E n \in 0..Len(recs) :
         LET regex == [k \in 1..n |-> structured(recs[k])]
             rest == [k \in 1..(Len(recs) - n) |-> [rec |-> recs[n + k], relevance |-> <<0>>]]
         IN /\ query' = q
            /\ analysis' = a
            /\ regexResults' = regex
            /\ ragResults' = IF withRag THEN rest ELSE <<>>
            /\ combinedResults' = regex \o rest
  /\ pc' = "format"
  /\ UNCHANGED <<scanned, idx, acc, outcome, calls, context, elsewhere>>

FormatContext ==
  /\ pc = "format"
  /\ context' = formatContextForLLM(
                  routerResultsOf(analysis, regexResults, ragResults, combinedResults), query)
  /\ pc' = "formatted"
  /\ UNCHANGED <<query, analysis, scanned, idx, acc, regexResults, ragResults,
                 combinedResults, outcome, calls, elsewhere>>

NextFormat ==
  \/ FormatInput
  \/ FormatContext

SpecFormat == Init /\ [][NextFormat]_vars



(***************************************************************************)
(* analyzeQuery called again and again, on any queries in any order.  The  *)
(* arrays and patterns the extractors and analyzeQuery work with are       *)
(* created in the function bodies, so a call starts from nothing but its   *)
(* argument; analyses records what each call returned.                     *)
(***************************************************************************)
MaxCalls == 3

\* Faulty variant of AnalyzeCall: the partNumbers array of extractPartNumbers
\* is created once for the module and keeps the entries of earlier calls
AnalyzeCallKeepingPartNumbers ==
  /\ pc = "idle"
  /\ Len(analyses) < MaxCalls
  /\ \E q \in Phrases :
       \E a \in {classify(q, uniqueInOrder(analysis.partNumbers \o extractPartNumbers(q)),
                          extractModelNumbers(q), extractBrands(q))} :
         /\ query' = q
         /\ analysis' = a
         /\ scanned' = scanPatterns(toLowerCase(q), a.hasPartNumber, a.hasModelNumber, 1)
         /\ analyses' = Append(analyses, [query |-> q, analysis |-> a])
  /\ UNCHANGED <<pc, idx, acc, regexResults, ragResults, combinedResults, outcome, calls,
                 context, suspended, conversations, arrays, requests>>

\* One call of analyzeQuery(query), from its first statement to its return
AnalyzeCall ==
  /\ pc = "idle"
  /\ Len(analyses) < MaxCalls
  /\ \E q \in Phrases :
       \E a \in {analyzeQuery(q)} :
         /\ query' = q
         /\ analysis' = a
         /\ scanned' = scanPatterns(toLowerCase(q), a.hasPartNumber, a.hasModelNumber, 1)
         /\ analyses' = Append(analyses, [query |-> q, analysis |-> a])
  /\ UNCHANGED <<pc, idx, acc, regexResults, ragResults, combinedResults, outcome, calls,
                 context, suspended, conversations, arrays, requests>>

NextAnalyze == AnalyzeCall

SpecAnalyze == Init /\ [][NextAnalyze]_vars

(***************************************************************************)
(* Several calls of routeQuery in flight.  A call runs from one await to   *)
(* the next without interruption; while it waits, the event loop may start *)
(* another call or continue a waiting one.  Everything routeQuery and      *)
(* regexLookup work with is a parameter or a local of the call: the frame. *)
(***************************************************************************)
MaxInFlight == 2

ConcurrentQueries ==
  {<<"P", "S", "1", "1", "7", "5", "2", "7", "7", "8", " ", "W", "D", "T", "7", "8", "0", "S", "A", "E", "M", "1", " ", "W", "h", "i", "r", "l", "p", "o", "o", "l">>,
   <<"A", "P", "6", "0", "0", "6", "0", "5", "8", " ", "K", "e", "n", "m", "o", "r", "e">>}

\* The locals of the running call
currentFrame ==
  [pc |-> pc, query |-> query, analysis |-> analysis, scanned |-> scanned, idx |-> idx,
   acc |-> acc, regexResults |-> regexResults, ragResults |-> ragResults,
   combinedResults |-> combinedResults, outcome |-> outcome, calls |-> calls]

\* The locals of a call that has not run yet
IdleFrame ==
  [pc |-> "idle", query |-> <<>>, analysis |-> NoAnalysis, scanned |-> 0, idx |-> 1,
   acc |-> <<>>, regexResults |-> <<>>, ragResults |-> <<>>,
   combinedResults |-> <<>>, outcome |-> "pending", calls |-> <<>>]

\* Faulty variant of Restore: the results array of regexLookup and the
\* ragResults array of routeQuery belong to the module, not to the call
RestoreSharingAcc(f) ==
  /\ pc' = f.pc
  /\ query' = f.query
  /\ analysis' = f.analysis
  /\ scanned' = f.scanned
  /\ idx' = f.idx
  /\ acc' = acc
  /\ regexResults' = f.regexResults
  /\ ragResults' = f.ragResults
  /\ combinedResults' = f.combinedResults
  /\ outcome' = f.outcome
  /\ calls' = f.calls

\* The call with frame f becomes the running call
Restore(f) ==
  /\ pc' = f.pc
  /\ query' = f.query
  /\ analysis' = f.analysis
  /\ scanned' = f.scanned
  /\ idx' = f.idx
  /\ acc' = f.acc
  /\ regexResults' = f.regexResults
  /\ ragResults' = f.ragResults
  /\ combinedResults' = f.combinedResults
  /\ outcome' = f.outcome
  /\ calls' = f.calls

\* While the running call waits (or after it has settled), another caller
\* calls routeQuery
Arrive ==
  /\ pc # "idle"
  /\ Len(suspended) + 1 < MaxInFlight
  /\ suspended' = Append(suspended, currentFrame)
  /\ Restore(IdleFrame)
  /\ UNCHANGED <<context, analyses, conversations, arrays, requests>>

\* The synchronous start of the new call
ConcurrentStart == \E q \in ConcurrentQueries : RouteStartOn(q)

\* The event loop continues a waiting call; the running one waits in its place
Resume ==
  /\ pc # "idle"
  /\ \E i \in 1..Len(suspended) :
       /\ suspended[i].pc # "done"
       /\ suspended' = [suspended EXCEPT ![i] = currentFrame]
       /\ Restore(suspended[i])
  /\ UNCHANGED <<context, analyses, conversations, arrays, requests>>

NextConcurrent ==
  \/ ConcurrentStart
  \/ GetProductReturns
  \/ GetProductFails
  \/ GetProductThrows
  \/ ReplacementReturns
  \/ ReplacementThrows
  \/ RegexModelReturns
  \/ RegexModelThrows
  \/ RagModelReturns
  \/ RagModelThrows
  \/ RagSearch
  \/ Arrive
  \/ Resume

SpecConcurrent == Init /\ [][NextConcurrent]_vars

(***************************************************************************)
(* getRelevantContext(userQuery): analyzeQuery, then routeQuery and        *)
(* formatContextForLLM inside one try whose catch returns null.  pc is     *)
(* "ctx_returned" when its promise is fulfilled (context holds the value), *)
(* "ctx_threw" when it is rejected.                                        *)
(***************************************************************************)
ContextQueries == Phrases \cup {Vocabulary[t] : t \in 1..Len(Vocabulary)}

\* Up to the first await: null at once when the row has useRAG false,
\* otherwise the call of routeQuery
GetContextStart ==
  \E q \in ContextQueries :
    \E a \in {analyzeQuery(q)} :
      IF ~a.useRAG
      THEN /\ pc = "idle"
           /\ pc' = "ctx_returned"
           /\ query' = q
           /\ analysis' = a
           /\ scanned' = scanPatterns(toLowerCase(q), a.hasPartNumber, a.hasModelNumber, 1)
           /\ context' = <<>>
           /\ UNCHANGED <<idx, acc, regexResults, ragResults, combinedResults, outcome,
                          calls, elsewhere>>
      ELSE RouteStartOn(q)

\* Faulty variant of GetContextFinish: the try has no catch
GetContextFinishRethrowing ==
  /\ pc = "done"
  /\ pc' = IF outcome = "rejected" THEN "ctx_threw" ELSE "ctx_returned"
  /\ context' =
       IF outcome = "rejected" \/ Len(combinedResults) = 0 THEN <<>>
       ELSE formatContextForLLM(
              routerResultsOf(analysis, regexResults, ragResults, combinedResults), query)
  /\ UNCHANGED <<query, analysis, scanned, idx, acc, regexResults, ragResults,
                 combinedResults, outcome, calls, elsewhere>>

\* After await routeQuery(userQuery): the catch when it threw, null when
\* nothing was found, otherwise the formatted context
GetContextFinish ==
  /\ pc = "done"
  /\ pc' = "ctx_returned"
  /\ context' =
       IF outcome = "rejected" \/ Len(combinedResults) = 0 THEN <<>>
       ELSE formatContextForLLM(
              routerResultsOf(analysis, regexResults, ragResults, combinedResults), query)
  /\ UNCHANGED <<query, analysis, scanned, idx, acc, regexResults, ragResults,
                 combinedResults, outcome, calls, elsewhere>>

NextContext ==
  \/ GetContextStart
  \/ GetProductReturns
  \/ GetProductFails
  \/ GetProductThrows
  \/ ReplacementReturns
  \/ ReplacementThrows
  \/ RegexModelReturns
  \/ RegexModelThrows
  \/ RagModelReturns
  \/ RagModelThrows
  \/ RagSearch
  \/ GetContextFinish

SpecContext == Init /\ [][NextContext]_vars

(***************************************************************************)
(* The sort of combinedResults on its own: any deduplicated list of        *)
(* results, with or without scores, is sorted against any list of          *)
(* structured results and the analysis of any phrase.                      *)
(***************************************************************************)
\* The deduplicated lists of results: distinct records, each with a score or
\* without one
ResultLists ==
  UNION {{[k \in 1..Len(recs) |-> [rec |-> recs[k], relevance |-> rel[k]]] :
            rel \in [1..Len(recs) -> {<<>>} \cup {<<v>> : v \in 0..MaxScore}]} :
         recs \in RecordLists}

CompareInput ==
  /\ pc = "idle"
  /\ \E q \in Phrases :
       \E a \in {analyzeQuery(q)}, exact \in SUBSET Records, results \in ResultLists :
         /\ query' = q
         /\ analysis' = a
         /\ regexResults' = recordsWhere(exact, 1)
         /\ acc' = results
  /\ pc' = "sort"
  /\ UNCHANGED <<scanned, idx, ragResults, combinedResults, outcome, calls, context,
                 elsewhere>>

SortCombined ==
  /\ pc = "sort"
  /\ combinedResults' = sortResults(acc, regexResults, analysis)
  /\ pc' = "sorted"
  /\ UNCHANGED <<query, analysis, scanned, idx, acc, regexResults, ragResults, outcome,
                 calls, context, elsewhere>>

NextCompare ==
  \/ CompareInput
  \/ SortCombined

SpecCompare == Init /\ [][NextCompare]_vars

(***************************************************************************)
(* POST /api/chat.  conversations is the Map of the module, a list of      *)
(* entries in insertion order; arrays is the heap of message arrays, and a *)
(* reference to an array is its index there.  A request holds its          *)
(* conversationId, the reference it took as messages and the await it is   *)
(* at; the number of the request stands for the text of its message and    *)
(* of its reply.  The handler runs without interruption from one await to  *)
(* the next.                                                               *)
(***************************************************************************)
MaxRequests == 3

ConversationIds == {"c1", "c2"}

\* The variables the chat endpoint does not touch
outsideChat ==
  <<query, analysis, scanned, idx, acc, regexResults, ragResults, combinedResults, outcome,
    calls, context, analyses, suspended>>

systemMessage == [role |-> "system", of |-> 0]

\* conversations.get(conversationId): <<>> when the key is absent
conversationsGet(conversationId) ==
  LET hits == SelectSeq(conversations, LAMBDA e : e.key = conversationId)
  IN IF hits = <<>> THEN <<>> ELSE <<hits[1].value>>

\* conversations.set(conversationId, messages)
conversationsSet(conversationId, messages) ==
  IF conversationsGet(conversationId) = <<>>
  THEN Append(conversations, [key |-> conversationId, value |-> messages])
  ELSE [i \in 1..Len(conversations) |->
          IF conversations[i].key = conversationId
          THEN [key |-> conversationId, value |-> messages] ELSE conversations[i]]

\* messages.push(m) on the array behind a reference
push(heap, messages, m) == [heap EXCEPT ![messages] = Append(@, m)]

\* The process starts: USE_MOCK_MODE is read from an environment that does
\* not change afterwards
ChatListen ==
  /\ pc = "idle"
  /\ pc' \in {"mock", "api"}
  /\ UNCHANGED <<outsideChat, conversations, arrays, requests>>

\* A request without a message is answered with status 400
ChatReject ==
  /\ pc \in {"mock", "api"}
  /\ Len(requests) < MaxRequests
  /\ \E c \in ConversationIds :
       requests' = Append(requests, [conversationId |-> c, messages |-> 0, at |-> "status400"])
  /\ UNCHANGED <<pc, outsideChat, conversations, arrays>>

\* The handler up to await getRelevantContext(message): the stored array of
\* the conversation, or a new array with the system prompt
ChatReceive ==
  /\ pc \in {"mock", "api"}
  /\ Len(requests) < MaxRequests
  /\ \E c \in ConversationIds :
       LET stored == conversationsGet(c)
           messages == IF stored # <<>> THEN stored[1] ELSE Len(arrays) + 1
       IN /\ arrays' = IF stored # <<>> THEN arrays ELSE Append(arrays, <<systemMessage>>)
          /\ requests' = Append(requests,
                                [conversationId |-> c, messages |-> messages, at |-> "context"])
  /\ UNCHANGED <<pc, outsideChat, conversations>>

\* The tail of the handler: the reply is pushed, the array is stored under the
\* conversationId, the response is sent
storeReply(r, heap) ==
  /\ arrays' = push(heap, requests[r].messages, [role |-> "assistant", of |-> r])
  /\ conversations' = conversationsSet(requests[r].conversationId, requests[r].messages)
  /\ requests' = [requests EXCEPT ![r].at = "responded"]

\* getRelevantContext has settled (a rejection is caught): the user message
\* is pushed; in mock mode the reply is generated at once, otherwise the
\* handler waits for openai.chat.completions.create
ChatAfterContext ==
  /\ \E r \in 1..Len(requests) :
       /\ requests[r].at = "context"
       /\ LET withUser == push(arrays, requests[r].messages, [role |-> "user", of |-> r])
          IN IF pc = "mock"
             THEN storeReply(r, withUser)
             ELSE /\ arrays' = withUser
                  /\ requests' = [requests EXCEPT ![r].at = "completion"]
                  /\ UNCHANGED conversations
  /\ UNCHANGED <<pc, outsideChat>>

\* openai.chat.completions.create has settled: its reply, or the mock reply
\* when it failed
ChatAfterCompletion ==
  /\ \E r \in 1..Len(requests) :
       /\ requests[r].at = "completion"
       /\ storeReply(r, arrays)
  /\ UNCHANGED <<pc, outsideChat>>

NextChat ==
  \/ ChatListen
  \/ ChatReject
  \/ ChatReceive
  \/ ChatAfterContext
  \/ ChatAfterCompletion

SpecChat == Init /\ [][NextChat]_vars

(***************************************************************************)
(* Properties of routeQuery and of the functions it calls.                 *)
(***************************************************************************)
Returned == pc = "done" /\ outcome = "returned"

\* The state analyzeQuery returns in: no collaborator has been called yet, and
\* no later step changes query or analysis
Analysed == pc # "idle" /\ calls = <<>>

FailedCalls(fn) == {i \in 1..Len(calls) : calls[i].fn = fn /\ ~calls[i].ok}

InRegexResults(e) == \E k \in 1..Len(regexResults) : idOf(regexResults[k]) = idOf(e)

\* C1: when getProductByPartNumber fails with a connectivity error while
\* routeQuery handles a query with a part number, the request ends with a
\* failure outcome, never with the normal return an empty lookup also gives.
C1_DirectFetchFailureIsReported ==
  (pc = "done" /\ FailedCalls("getProductByPartNumber") # {}) => outcome = "rejected"

\* C2: in combinedResults every entry whose id is in regexResults comes before
\* every entry whose id is not.
C2_StructuredBeforeSemantic ==
  Returned =>
    \A i, j \in 1..Len(combinedResults) :
      (InRegexResults(combinedResults[i]) /\ ~InRegexResults(combinedResults[j])) => i < j

\* A structured entry sorted ahead of a semantic-only entry of higher relevance
C2_Witness ==
  /\ Returned
  /\ Len(combinedResults) >= 2
  /\ InRegexResults(combinedResults[1])
  /\ ~InRegexResults(combinedResults[2])
  /\ relevanceOrZero(combinedResults[2]) > relevanceOrZero(combinedResults[1])

\* C3: combinedResults never holds two entries with the same id.
C3_NoDuplicateIds ==
  Returned =>
    \A i, j \in 1..Len(combinedResults) :
      i # j => idOf(combinedResults[i]) # idOf(combinedResults[j])

\* The same record came back from the structured lookup and from the semantic step
C3_Witness ==
  /\ Returned
  /\ \E i \in 1..Len(regexResults) :
       \E j \in 1..Len(ragResults) : idOf(regexResults[i]) = idOf(ragResults[j])

\* Row i of QUERY_PATTERNS accepts the analysed query: its requirements are met
\* by the extracted entities, and one of its keywords, if it has any, occurs in
\* the lower-cased query
C4_Accepts(i, lowerQuery) ==
  /\ "partNumber" \in QUERY_PATTERNS[i].requires => Len(analysis.partNumbers) > 0
  /\ "modelNumber" \in QUERY_PATTERNS[i].requires => Len(analysis.modelNumbers) > 0
  /\ QUERY_PATTERNS[i].keywords # <<>> =>
       \E k \in 1..Len(QUERY_PATTERNS[i].keywords) :
         includes(lowerQuery, QUERY_PATTERNS[i].keywords[k])

\* C4: analyzeQuery yields the type, useRegex, useRAG and confidence of the
\* first row of QUERY_PATTERNS that accepts the query.
C4_FirstAcceptedRowDecides ==
  Analysed =>
    \E lowerQuery \in {toLowerCase(query)} :
      \E i \in 1..Len(QUERY_PATTERNS) :
        /\ \A j \in 1..(i - 1) : ~C4_Accepts(j, lowerQuery)
        /\ C4_Accepts(i, lowerQuery)
        /\ analysis.queryType = QUERY_PATTERNS[i].type
        /\ analysis.useRegex = QUERY_PATTERNS[i].useRegex
        /\ analysis.useRAG = QUERY_PATTERNS[i].useRAG
        /\ analysis.confidence = QUERY_PATTERNS[i].confidence

\* A query that two rows accept, classified by the earlier one
C4_Witness ==
  /\ Analysed
  /\ analysis.queryType = "compatibility"
  /\ C4_Accepts(1, toLowerCase(query))
  /\ C4_Accepts(3, toLowerCase(query))
  /\ C4_Accepts(Len(QUERY_PATTERNS), toLowerCase(query))

RequiresIdentifier(i) == QUERY_PATTERNS[i].requires # {}
KeywordOnly(i) == QUERY_PATTERNS[i].requires = {} /\ QUERY_PATTERNS[i].keywords # <<>>
IsFallback(i) == QUERY_PATTERNS[i].requires = {} /\ QUERY_PATTERNS[i].keywords = <<>>

\* C5: in the table analyzeQuery scans, every row that requires an identifier
\* comes before every keyword-only row, and every keyword-only row before the
\* fallback.
C5_IdentifierRowsFirst ==
  Analysed =>
    \A i, j \in 1..Len(QUERY_PATTERNS) :
      /\ (RequiresIdentifier(i) /\ KeywordOnly(j)) => i < j
      /\ (KeywordOnly(i) /\ IsFallback(j)) => i < j

\* C6: the scan of analyzeQuery always accepts a row, because the last row
\* requires nothing and lists no keywords.
C6_ScanAlwaysAccepts ==
  pc # "idle" =>
    /\ scanned \in 1..Len(QUERY_PATTERNS)
    /\ IsFallback(Len(QUERY_PATTERNS))

\* A query without entities or keywords, accepted by the last row only
C6_Witness ==
  /\ pc # "idle"
  /\ ~analysis.hasPartNumber /\ ~analysis.hasModelNumber
  /\ scanned = Len(QUERY_PATTERNS)

\* C7: no model number equals, contains or is contained in a part number of
\* the same analysis, letter case ignored.
C7_PartAndModelNumbersDisjoint ==
  pc # "idle" =>
    \A i \in 1..Len(analysis.partNumbers) :
      \A j \in 1..Len(analysis.modelNumbers) :
        /\ ~includes(toUpperCase(analysis.partNumbers[i]), toUpperCase(analysis.modelNumbers[j]))
        /\ ~includes(toUpperCase(analysis.modelNumbers[j]), toUpperCase(analysis.partNumbers[i]))

\* A query with both kinds of number, where a model-number candidate was dropped
C7_Witness ==
  /\ pc # "idle"
  /\ analysis.hasPartNumber /\ analysis.hasModelNumber
  /\ Len(alphaPatternMatches(query, 1)) + Len(numericPatternMatches(query, 1))
       > Len(analysis.modelNumbers)

C8_DigitsOf(partNumber) == SelectSeq(partNumber, LAMBDA c : c \in DigitCh)

\* C8: extractPartNumbers keeps one entry per digit run: a run captured with
\* its prefix yields no second entry made of PS and the bare digits.
C8_OneEntryPerDigitRun ==
  pc # "idle" =>
    \A i, j \in 1..Len(analysis.partNumbers) :
      i # j => C8_DigitsOf(analysis.partNumbers[i]) # C8_DigitsOf(analysis.partNumbers[j])

\* C9: when a call of the semantic step fails, routeQuery fails at once: the
\* failed call is the last call made, nothing is combined, and the caller gets
\* the failure.
C9_SemanticFailureFailsFast ==
  \A i \in 1..Len(calls) :
    (calls[i].by = "routeQuery" /\ ~calls[i].ok) =>
      /\ i = Len(calls)
      /\ pc = "done" /\ outcome = "rejected"
      /\ ragResults = <<>> /\ combinedResults = <<>>

\* The vector search failed after the structured lookup had found a record
C9_Witness ==
  /\ Len(calls) > 0
  /\ calls[Len(calls)].fn = "searchProducts" /\ ~calls[Len(calls)].ok
  /\ outcome = "rejected"
  /\ regexResults # <<>>

\* C10: regexLookup runs only when the selected row has useRegex and the query
\* has a part or model number; otherwise regexResults is empty and the request
\* does not fail on that account.
C10_RegexLookupOnlyWhenApplicable ==
  LET applicable == analysis.useRegex /\ (analysis.hasPartNumber \/ analysis.hasModelNumber)
      lookupCalls == {i \in 1..Len(calls) : calls[i].by = "regexLookup"}
  IN pc # "idle" =>
       /\ (lookupCalls # {} \/ pc \in {"rx_get", "rx_repl", "rx_model"}) => applicable
       /\ ~applicable =>
            /\ regexResults = <<>>
            /\ outcome = "rejected" =>
                 (calls[Len(calls)].by = "routeQuery" /\ ~calls[Len(calls)].ok)

\* A query with a model number whose row has useRegex false, answered without
\* the structured lookup
C10_Witness ==
  /\ Returned
  /\ analysis.hasModelNumber /\ ~analysis.useRegex
  /\ regexResults = <<>> /\ ragResults # <<>>

\* Record r is reached by a per-identifier fetch of regexLookup: its id is that
\* of an extracted part number, it lists one as a replaced part, or it lists an
\* extracted model number as compatible
C11_Reached(r) ==
  \/ \E i \in 1..Len(analysis.partNumbers) :
       \/ recordId[r] = idOfPartNumber(analysis.partNumbers[i])
       \/ \E k \in 1..Len(Catalog[r].replacementParts) :
            toLowerCase(Catalog[r].replacementParts[k]) = toLowerCase(analysis.partNumbers[i])
  \/ \E j \in 1..Len(analysis.modelNumbers) :
       \E k \in 1..Len(Catalog[r].compatibleModels) :
         toUpperCase(Catalog[r].compatibleModels[k]) = toUpperCase(analysis.modelNumbers[j])

C11_MatchesSomeBrand(r) ==
  \E b \in 1..Len(analysis.brands) :
    includes(toLowerCase(Catalog[r].brand), toLowerCase(analysis.brands[b]))

\* regexLookup has returned normally: it was called and none of its calls failed
RegexLookupReturned ==
  /\ pc \in {"rag_model", "rag_search", "done"}
  /\ analysis.useRegex /\ (analysis.hasPartNumber \/ analysis.hasModelNumber)
  /\ \A i \in 1..Len(calls) : calls[i].by = "regexLookup" => calls[i].ok

\* C11: when brands were extracted, regexLookup returns exactly the reached
\* records whose brand contains one of the extracted brands, whichever one.
C11_BrandFilterKeepsEveryMatch ==
  (RegexLookupReturned /\ Len(analysis.brands) > 0) =>
    {regexResults[k].rec : k \in 1..Len(regexResults)}
      = {r \in Records : C11_Reached(r) /\ C11_MatchesSomeBrand(r)}

\* C12: every entry of ragResults carries the score the vector search returned
\* for its record, also when the model-compatibility fetch returned the record
\* too: for every answer of searchProducts that explains the step.
C12_SemanticEntriesKeepTheirScore ==
  [][(pc = "rag_search" /\ outcome' = "returned") =>
       \A r \in searchProducts(ragQueryOf(query, analysis), SEARCH_LIMIT) :
         (~r.threw /\ ragResults' = ragResultsOf(acc \o r.hits, analysis.brands)) =>
           \A i \in 1..Len(ragResults') :
             \A h \in 1..Len(r.hits) :
               r.hits[h].rec = ragResults'[i].rec =>
                 ragResults'[i].relevance = r.hits[h].relevance]_vars

\* C13: for an id both strategies returned, the entry kept in combinedResults
\* is the occurrence of regexResults, not that of ragResults.
C13_StructuredOccurrenceKept ==
  Returned =>
    \A i \in 1..Len(combinedResults) :
      InRegexResults(combinedResults[i]) =>
        \E k \in 1..Len(regexResults) : regexResults[k] = combinedResults[i]

\* A record both strategies returned, whose semantic occurrence carries a score
\* the structured occurrence does not have
C13_Witness ==
  /\ Returned
  /\ \E i \in 1..Len(regexResults) :
       \E j \in 1..Len(ragResults) :
         /\ idOf(regexResults[i]) = idOf(ragResults[j])
         /\ regexResults[i] # ragResults[j]

\* The compatibleModels of the record of entry e hold an extracted model number,
\* letter case ignored
C14_ListsExtractedModel(e) ==
  \E k \in 1..Len(Catalog[e.rec].compatibleModels) :
    \E j \in 1..Len(analysis.modelNumbers) :
      toUpperCase(Catalog[e.rec].compatibleModels[k]) = toUpperCase(analysis.modelNumbers[j])

\* C14: when model numbers were extracted, every semantic-only entry of
\* combinedResults that lists one of them as compatible comes before every
\* semantic-only entry that lists none, whatever their relevance.
C14_ModelMatchesBeforeOthers ==
  (Returned /\ Len(analysis.modelNumbers) > 0) =>
    \A i, j \in 1..Len(combinedResults) :
      (/\ ~InRegexResults(combinedResults[i])
       /\ ~InRegexResults(combinedResults[j])
       /\ C14_ListsExtractedModel(combinedResults[i])
       /\ ~C14_ListsExtractedModel(combinedResults[j])) => i < j

\* A compatible semantic-only entry placed before one of higher relevance that
\* is not compatible
C14_Witness ==
  /\ Returned
  /\ Len(analysis.modelNumbers) > 0
  /\ \E i, j \in 1..Len(combinedResults) :
       /\ i < j
       /\ ~InRegexResults(combinedResults[i])
       /\ ~InRegexResults(combinedResults[j])
       /\ C14_ListsExtractedModel(combinedResults[i])
       /\ ~C14_ListsExtractedModel(combinedResults[j])
       /\ relevanceOrZero(combinedResults[j]) > relevanceOrZero(combinedResults[i])

\* Entries a and b tie on the structured/semantic rule and on the
\* model-compatibility rule, which applies to two semantic-only entries when a
\* model number was extracted
C15_TieOnFirstTwoRules(a, b) ==
  /\ InRegexResults(a) = InRegexResults(b)
  /\ (~InRegexResults(a) /\ Len(analysis.modelNumbers) > 0) =>
       (C14_ListsExtractedModel(a) = C14_ListsExtractedModel(b))

\* The score the ordering reads: the relevance, an absent one counting as the
\* lowest score, 0
C15_Score(e) == IF e.relevance = <<>> THEN 0 ELSE e.relevance[1]

\* The position of the id of e in regexResults followed by ragResults, the
\* order before the sort
C15_PreSortIndex(e) ==
  CHOOSE k \in 1..(Len(regexResults) + Len(ragResults)) :
    /\ idOf((regexResults \o ragResults)[k]) = idOf(e)
    /\ \A m \in 1..(k - 1) : idOf((regexResults \o ragResults)[m]) # idOf(e)

C16_HitOfFetch(s, r) ==
  LET P == Len(analysis.partNumbers)
      brandFilter == brandFilterOf(analysis.brands)
  IN IF s <= 2 * P
     THEN LET partNumber == analysis.partNumbers[(s + 1) \div 2]
          IN IF s % 2 = 1
             THEN recordId[r] = idOfPartNumber(partNumber)
             ELSE /\ \E k \in 1..Len(Catalog[r].replacementParts) :
                       toLowerCase(Catalog[r].replacementParts[k]) = toLowerCase(partNumber)
                  /\ passesBrandFilter(r, brandFilter)
     ELSE /\ \E k \in 1..Len(Catalog[r].compatibleModels) :
               toUpperCase(Catalog[r].compatibleModels[k])
                 = toUpperCase(analysis.modelNumbers[s - 2 * P])
          /\ passesBrandFilter(r, brandFilter)

C16_Fetches == 1..(2 * Len(analysis.partNumbers) + Len(analysis.modelNumbers))

C16_FirstFetch(r) ==
  CHOOSE s \in C16_Fetches :
    C16_HitOfFetch(s, r) /\ \A t \in 1..(s - 1) : ~C16_HitOfFetch(t, r)

C16_IndexInRegexResults(e) ==
  CHOOSE k \in 1..Len(regexResults) : idOf(regexResults[k]) = idOf(e)

\* C16: regexResults lists each record once, at the place of the first fetch
\* that returned it, the fetches taken in extraction order (per part number
\* the direct hit, then the cross-reference hits, then the hits of each model
\* number) and the hits of one fetch in the order of the store; the structured
\* entries of combinedResults are the entries of regexResults in that order.
C16_ExtractionOrderKept ==
  /\ RegexLookupReturned =>
       \A k, l \in 1..Len(regexResults) :
         k < l =>
           /\ \E s \in C16_Fetches : C16_HitOfFetch(s, regexResults[k].rec)
           /\ \E s \in C16_Fetches : C16_HitOfFetch(s, regexResults[l].rec)
           /\ \/ C16_FirstFetch(regexResults[k].rec) < C16_FirstFetch(regexResults[l].rec)
              \/ /\ C16_FirstFetch(regexResults[k].rec) = C16_FirstFetch(regexResults[l].rec)
                 /\ regexResults[k].rec < regexResults[l].rec
  /\ Returned =>
       /\ \A k \in 1..Len(regexResults) :
            \E i \in 1..Len(combinedResults) : combinedResults[i] = regexResults[k]
       /\ \A i, j \in 1..Len(combinedResults) :
            (i < j /\ InRegexResults(combinedResults[i]) /\ InRegexResults(combinedResults[j])) =>
              C16_IndexInRegexResults(combinedResults[i])
                < C16_IndexInRegexResults(combinedResults[j])

\* Two part numbers: the cross-reference hits of the first precede the direct
\* hit of the second, which the store holds before one of them; a record
\* returned by two fetches is listed once
C16_Witness ==
  /\ Returned /\ RegexLookupReturned
  /\ Len(analysis.partNumbers) >= 2
  /\ \E k, l \in 1..Len(regexResults) :
       /\ k < l
       /\ regexResults[k].rec > regexResults[l].rec
       /\ C16_FirstFetch(regexResults[k].rec) < C16_FirstFetch(regexResults[l].rec)
  /\ \E k \in 1..Len(regexResults) :
       \E s, t \in C16_Fetches :
         s # t /\ C16_HitOfFetch(s, regexResults[k].rec) /\ C16_HitOfFetch(t, regexResults[k].rec)


C17_BlockHeadings ==
  SelectSeq(context, LAMBDA l : l.tag \in {"--- [EXACT MATCH] Product",
                                           "--- [SEMANTIC MATCH] Product"})

C17_PartNumberLines == SelectSeq(context, LAMBDA l : l.tag = "Part Number:")

\* C17: formatContextForLLM returns null exactly when combinedResults is
\* empty; otherwise its text holds one block per entry of combinedResults,
\* numbered from 1 and in the order of combinedResults, the k-th block being
\* the block of the k-th entry.
C17_NullIffEmptyElseOneBlockPerEntry ==
  pc = "formatted" =>
    /\ context = <<>> <=> combinedResults = <<>>
    /\ Len(C17_BlockHeadings) = Len(combinedResults)
    /\ Len(C17_PartNumberLines) = Len(combinedResults)
    /\ \A k \in 1..Len(combinedResults) :
         /\ C17_BlockHeadings[k].n = k
         /\ C17_PartNumberLines[k].text = Catalog[combinedResults[k].rec].partNumber

\* Three entries, structured and semantic, not in the order of the store, were
\* formatted
C17_Witness ==
  /\ pc = "formatted"
  /\ Len(combinedResults) = 3
  /\ combinedResults[1].rec > combinedResults[2].rec
  /\ Len(regexResults) = 1
  /\ ragResults # <<>>
  /\ context # <<>>


\* No keyword of any row of QUERY_PATTERNS occurs in the lower-cased query
C18_NoKeywordHit(lowerQuery) ==
  \A i \in 1..Len(QUERY_PATTERNS) :
    \A k \in 1..Len(QUERY_PATTERNS[i].keywords) :
      ~includes(lowerQuery, QUERY_PATTERNS[i].keywords[k])

\* C18: a query with no part number, no model number and no keyword hit is
\* classified "general"; routeQuery then returns without calling a collaborator,
\* regexResults, ragResults and combinedResults are empty, and
\* formatContextForLLM returns null for what routeQuery returned.
C18_FallbackRetrievesNothing ==
  (Analysed /\ ~analysis.hasPartNumber /\ ~analysis.hasModelNumber
     /\ C18_NoKeywordHit(toLowerCase(query))) =>
    /\ analysis.queryType = "general"
    /\ ~analysis.useRegex /\ ~analysis.useRAG
    /\ Returned
    /\ regexResults = <<>> /\ ragResults = <<>> /\ combinedResults = <<>>
    /\ formatContextForLLM(
         routerResultsOf(analysis, regexResults, ragResults, combinedResults), query) = <<>>

\* routeQuery has handled the query "hello"
C18_Witness ==
  /\ pc = "done"
  /\ query = <<"h", "e", "l", "l", "o">>
  /\ ~analysis.hasPartNumber /\ ~analysis.hasModelNumber
  /\ C18_NoKeywordHit(toLowerCase(query))
  /\ calls = <<>>


IceMakerQuery ==
  <<"i", "c", "e", " ", "m", "a", "k", "e", "r", " ", "n", "o", "t", " ", "w", "o", "r", "k", "i", "n", "g", " ", "o", "n", " ", "m", "y", " ", "W", "h", "i", "r", "l", "p", "o", "o", "l", " ", "f", "r", "i", "d", "g", "e">>

\* C19: for the query "ice maker not working on my Whirlpool fridge" the
\* analysis has no part number, no model number, and "whirlpool" as its only
\* brand.
C19_OnlyWhirlpoolExtracted ==
  (pc # "idle" /\ query = IceMakerQuery) =>
    /\ analysis.partNumbers = <<>>
    /\ analysis.modelNumbers = <<>>
    /\ analysis.brands = <<<<"w", "h", "i", "r", "l", "p", "o", "o", "l">>>>


\* The row of QUERY_PATTERNS with type "troubleshooting"
C20_TroubleshootingRow ==
  CHOOSE i \in 1..Len(QUERY_PATTERNS) : QUERY_PATTERNS[i].type = "troubleshooting"

\* The query has no identifier, names a brand, and contains a keyword of the
\* troubleshooting row
C20_BrandedTroubleshooting ==
  /\ pc # "idle"
  /\ ~analysis.hasPartNumber /\ ~analysis.hasModelNumber /\ analysis.hasBrand
  /\ \E k \in 1..Len(QUERY_PATTERNS[C20_TroubleshootingRow].keywords) :
       includes(toLowerCase(query), QUERY_PATTERNS[C20_TroubleshootingRow].keywords[k])

\* C20: a query without identifier that contains a troubleshooting keyword and
\* a brand name, such as "ice maker not working on my Whirlpool fridge", is
\* classified "troubleshooting", and the only collaborator routeQuery calls
\* for it is searchProducts, with the query followed by the extracted brands.
C20_BrandedTroubleshootingIsSemantic ==
  C20_BrandedTroubleshooting =>
    /\ analysis.queryType = "troubleshooting"
    /\ \A i \in 1..Len(calls) :
         /\ calls[i].by = "routeQuery" /\ calls[i].fn = "searchProducts"
         /\ calls[i].arg = query \o <<" ">> \o joinWithSpaces(analysis.brands)
    /\ pc = "done" => Len(calls) = 1


CompatibilityQuery ==
  <<"I", "s", " ", "P", "S", "1", "1", "7", "5", "2", "7", "7", "8", " ", "c", "o", "m", "p", "a", "t", "i", "b", "l", "e", " ", "w", "i", "t", "h", " ", "W", "D", "T", "7", "8", "0", "S", "A", "E", "M", "1", "?">>

\* The record of the part PS11752778
C21_Record == CHOOSE r \in Records : recordId[r] = idOfPartNumber(<<"P", "S", "1", "1", "7", "5", "2", "7", "7", "8">>)

\* C21: for the query "Is PS11752778 compatible with WDT780SAEM1?" the
\* analysis has the part number PS11752778, the model number WDT780SAEM1, no
\* brand and the type "compatibility"; routeQuery calls the structured lookup
\* and the semantic step; and when it returns, the record of PS11752778 is
\* the first entry of combinedResults, whatever the vector search gave, the
\* fetches of the structured lookup having succeeded.
C21_ScenarioA ==
  (pc # "idle" /\ query = CompatibilityQuery) =>
    /\ analysis.partNumbers = <<<<"P", "S", "1", "1", "7", "5", "2", "7", "7", "8">>>>
    /\ analysis.modelNumbers = <<<<"W", "D", "T", "7", "8", "0", "S", "A", "E", "M", "1">>>>
    /\ analysis.brands = <<>>
    /\ analysis.queryType = "compatibility"
    /\ pc = "done" =>
         /\ \E i \in 1..Len(calls) : calls[i].by = "regexLookup"
         /\ \E i \in 1..Len(calls) : calls[i].by = "routeQuery"
    /\ (Returned /\ RegexLookupReturned) =>
         /\ combinedResults # <<>>
         /\ combinedResults[1].rec = C21_Record

\* The vector search ranked another record highest, with a positive score
C21_Witness ==
  /\ Returned /\ RegexLookupReturned /\ query = CompatibilityQuery
  /\ \E i \in 1..Len(ragResults) :
       /\ ragResults[i].rec # C21_Record
       /\ relevanceOrZero(ragResults[i]) > 0
  /\ combinedResults[1].rec = C21_Record


C22_IsHeading(l) ==
  l.tag \in {"--- [EXACT MATCH] Product", "--- [SEMANTIC MATCH] Product"}

\* The tags of the lines of the k-th block of context: from its heading to the
\* next heading
C22_TagsOfBlock(k) ==
  LET start == CHOOSE p \in 1..Len(context) : C22_IsHeading(context[p]) /\ context[p].n = k
      after == {p \in (start + 1)..Len(context) : C22_IsHeading(context[p])}
      stop == IF after = {} THEN Len(context) ELSE (CHOOSE p \in after : \A q \in after : p <= q) - 1
  IN {context[p].tag : p \in start..stop}

C22_ReplacesSearchedPart(e) ==
  \E k \in 1..Len(Catalog[e.rec].replacementParts) :
    \E i \in 1..Len(analysis.partNumbers) :
      toUpperCase(Catalog[e.rec].replacementParts[k]) = toUpperCase(analysis.partNumbers[i])

\* C22: in the text formatContextForLLM returns, the block of every entry
\* whose replacementParts hold a searched part number carries the
\* replacement-part annotation, and the block of every entry whose
\* compatibleModels hold a searched model number carries the
\* model-compatibility annotation, for structured and semantic entries alike.
C22_RelationshipsAnnotated ==
  pc = "formatted" =>
    \A k \in 1..Len(combinedResults) :
      /\ C22_ReplacesSearchedPart(combinedResults[k]) =>
           "[REPLACEMENT PART MATCH]" \in C22_TagsOfBlock(k)
      /\ C14_ListsExtractedModel(combinedResults[k]) =>
           "[MODEL COMPATIBILITY MATCH]" \in C22_TagsOfBlock(k)


RECURSIVE C24_PartHits(_, _, _)
C24_PartHits(a, failedFetches, i) ==
  IF i > Len(a.partNumbers) THEN <<>>
  ELSE (IF i \in failedFetches THEN <<>> ELSE getProductByPartNumber(a.partNumbers[i]))
         \o searchByReplacementPart(a.partNumbers[i], brandFilterOf(a.brands))
         \o C24_PartHits(a, failedFetches, i + 1)

RECURSIVE C24_ModelHits(_, _)
C24_ModelHits(a, j) ==
  IF j > Len(a.modelNumbers) THEN <<>>
  ELSE searchByCompatibleModel(a.modelNumbers[j], brandFilterOf(a.brands))
         \o C24_ModelHits(a, j + 1)

\* The regexResults of a lone call whose collaborators answered as calls_ says
C24_RegexResultsAlone(a, calls_) ==
  LET lookups == SelectSeq(calls_, LAMBDA c : c.by = "regexLookup")
      directs == SelectSeq(lookups, LAMBDA c : c.fn = "getProductByPartNumber")
      failedFetches == {i \in 1..Len(directs) : ~directs[i].ok}
  IN IF ~(a.useRegex /\ (a.hasPartNumber \/ a.hasModelNumber)) THEN <<>>
     ELSE IF lookups # <<>> /\ ~lookups[Len(lookups)].ok THEN <<>>
     ELSE regexLookupReturn(C24_PartHits(a, failedFetches, 1) \o C24_ModelHits(a, 1), a.brands)

\* The frame f of a call that has returned holds what a lone call on the same
\* query returns when its collaborators give the same answers
C24_AsAlone(f) ==
  (f.pc = "done" /\ f.outcome = "returned") =>
    /\ f.analysis = analyzeQuery(f.query)
    /\ f.regexResults = C24_RegexResultsAlone(f.analysis, f.calls)
    /\ IF f.analysis.useRAG
       THEN \E r \in searchProducts(ragQueryOf(f.query, f.analysis), SEARCH_LIMIT) :
              /\ ~r.threw
              /\ f.ragResults = ragResultsOf(C24_ModelHits(f.analysis, 1) \o r.hits,
                                             f.analysis.brands)
       ELSE f.ragResults = <<>>
    /\ f.combinedResults = combineResults(f.regexResults, f.ragResults, f.analysis)

\* C24: whatever the interleaving of the calls of routeQuery at their awaits,
\* every call that returns, returns what it returns when it runs alone with
\* the same answers of the catalog and of the vector search; a waiting call
\* keeps its locals while another call runs.
C24_CallsDoNotInterfere ==
  /\ C24_AsAlone(currentFrame)
  /\ \A i \in 1..Len(suspended) : C24_AsAlone(suspended[i])

\* A call on another query ran to its return while a call waited in the middle
\* of its work, both with results of their own
C24_Witness ==
  /\ Returned /\ regexResults # <<>> /\ Len(calls) >= 2
  /\ \E i \in 1..Len(suspended) :
       /\ suspended[i].pc \in {"rx_get", "rx_repl", "rx_model", "rag_model", "rag_search"}
       /\ suspended[i].acc # <<>>
       /\ suspended[i].query # query


\* C25: getRelevantContext never throws; it returns null when the selected
\* row has useRAG false, without any collaborator call, and when routeQuery
\* failed; otherwise it returns what formatContextForLLM returns for the
\* results of routeQuery, never a text made of part of them.
C25_NullOrTheFormattedContext ==
  /\ pc # "ctx_threw"
  /\ pc = "ctx_returned" =>
       IF ~analysis.useRAG THEN context = <<>> /\ calls = <<>>
       ELSE IF outcome = "rejected" THEN context = <<>>
       ELSE context = formatContextForLLM(
                        routerResultsOf(analysis, regexResults, ragResults, combinedResults),
                        query)

\* The vector search failed after the structured lookup had found records:
\* null was returned
C25_Witness ==
  /\ pc = "ctx_returned"
  /\ outcome = "rejected"
  /\ regexResults # <<>>
  /\ context = <<>>


\* C26: when a part number is extracted, the selected row is compatibility,
\* installation or part_lookup, one of the first three, with useRegex and
\* useRAG true, and routeQuery calls the structured lookup and the semantic
\* step.
C26_PartNumberSelectsPartRow ==
  (pc # "idle" /\ analysis.hasPartNumber) =>
    /\ analysis.queryType \in {"compatibility", "installation", "part_lookup"}
    /\ scanned \in 1..3
    /\ "partNumber" \in QUERY_PATTERNS[scanned].requires
    /\ analysis.useRegex /\ analysis.useRAG
    /\ pc = "done" =>
         /\ \E i \in 1..Len(calls) : calls[i].by = "regexLookup"
         /\ \E i \in 1..Len(calls) : calls[i].by = "routeQuery"

\* A query with a part number, a model number and keywords of keyword-only
\* rows has been routed
C26_Witness ==
  /\ Returned
  /\ analysis.hasPartNumber /\ analysis.hasModelNumber
  /\ analysis.queryType = "part_lookup"
  /\ \E i \in 4..Len(QUERY_PATTERNS) :
       \E k \in 1..Len(QUERY_PATTERNS[i].keywords) :
         includes(toLowerCase(query), QUERY_PATTERNS[i].keywords[k])


\* The maximal runs of digits of the string s
C27_DigitRuns(s) ==
  {SubSeq(s, a, b) : <<a, b>> \in
     {p \in (1..Len(s)) \X (1..Len(s)) :
        /\ p[1] <= p[2]
        /\ \A k \in p[1]..p[2] : s[k] \in DigitCh
        /\ (p[1] = 1 \/ s[p[1] - 1] \notin DigitCh)
        /\ (p[2] = Len(s) \/ s[p[2] + 1] \notin DigitCh)}}

\* C27: the digits of every part number extractPartNumbers returns are a
\* complete run of digits of the query, never a piece of a longer run.
C27_PartNumbersFromWholeRuns ==
  Analysed =>
    \A i \in 1..Len(analysis.partNumbers) :
      C8_DigitsOf(analysis.partNumbers[i]) \in C27_DigitRuns(query)


\* The row of QUERY_PATTERNS with type "model_query"
C28_ModelQueryRow ==
  CHOOSE i \in 1..Len(QUERY_PATTERNS) : QUERY_PATTERNS[i].type = "model_query"

\* No keyword of a row before model_query occurs in the query. The rows that
\* require a part number are left out: a model_query has no part number,
\* and those rows reject such a query whatever its keywords
\* ("WDT780SAEM1 compatible" is a model_query).
C28_NoEarlierKeywordHit(lowerQuery) ==
  \A i \in 1..(C28_ModelQueryRow - 1) :
    "partNumber" \notin QUERY_PATTERNS[i].requires =>
      \A k \in 1..Len(QUERY_PATTERNS[i].keywords) :
        ~includes(lowerQuery, QUERY_PATTERNS[i].keywords[k])

\* The only identifier of the query is a number of 8 to 12 digits: the numeric
\* model pattern matches, the prefixed part pattern and the alphanumeric
\* model pattern do not
C28_OnlyNumericModel ==
  /\ numericPatternMatches(query, 1) # <<>>
  /\ partNumberPatternMatches(query, 1) = <<>>
  /\ alphaPatternMatches(query, 1) = <<>>

\* C28: model_query is selected only for a query with a model number, no part
\* number and no keyword hit in a row before model_query; and a query whose
\* only identifier is an all-numeric model number of 8 to 12 digits, without
\* such a keyword, is classified model_query.
C28_ModelQueryExactlyForModels ==
  Analysed =>
    /\ analysis.queryType = "model_query" =>
         /\ analysis.hasModelNumber /\ ~analysis.hasPartNumber
         /\ C28_NoEarlierKeywordHit(toLowerCase(query))
    /\ (C28_OnlyNumericModel /\ C28_NoEarlierKeywordHit(toLowerCase(query))) =>
         analysis.queryType = "model_query"


sign(n) == IF n < 0 THEN -1 ELSE IF n > 0 THEN 1 ELSE 0

\* The sort key the comparator stands for, smaller first: structured before
\* semantic, then (semantic only, with a model number in the query) compatible
\* before not, then the higher score, a missing score read as 0
C29_Key(e) ==
  LET isExact == \E i \in 1..Len(regexResults) : idOf(regexResults[i]) = idOf(e)
  IN <<IF isExact THEN 0 ELSE 1,
       IF ~isExact /\ analysis.hasModelNumber /\ ~matchesModelOf(e, analysis.modelNumbers)
       THEN 1 ELSE 0,
       0 - relevanceOrZero(e)>>

C29_KeyOrder(a, b) ==
  LET ka == C29_Key(a)
      kb == C29_Key(b)
  IN IF ka[1] # kb[1] THEN sign(ka[1] - kb[1])
     ELSE IF ka[2] # kb[2] THEN sign(ka[2] - kb[2])
     ELSE sign(ka[3] - kb[3])

\* The same list sorted by a sort that compares other pairs: it takes the
\* entries from the last to the first and puts each before the entries it
\* does not sort after
RECURSIVE C29_SortFromRight(_)
C29_SortFromRight(results) ==
  IF results = <<>> THEN <<>>
  ELSE insertBeforeTies(C29_SortFromRight(Tail(results)), Head(results), regexResults,
                        analysis)

C29_Entries == {acc[i] : i \in 1..Len(acc)}

C29_cmp(a, b) == compare(a, b, regexResults, analysis)

\* C29: over a deduplicated list the comparator is antisymmetric and
\* transitive, it orders by the key (structured, model-compatible, score), and
\* the sorted list is the same whichever pairs the sort compares.
C29_ConsistentOrdering ==
  pc \in {"sort", "sorted"} =>
    /\ \A a, b \in C29_Entries :
         /\ sign(C29_cmp(a, b)) = 0 - sign(C29_cmp(b, a))
         /\ sign(C29_cmp(a, b)) = C29_KeyOrder(a, b)
    /\ \A a, b, c \in C29_Entries :
         (C29_cmp(a, b) <= 0 /\ C29_cmp(b, c) <= 0) => C29_cmp(a, c) <= 0
    /\ pc = "sorted" =>
         /\ combinedResults = C29_SortFromRight(acc)
         /\ \A i, j \in 1..Len(combinedResults) :
              i < j => C29_cmp(combinedResults[i], combinedResults[j]) <= 0

\* A sorted list of three with a structured result, a semantic result that
\* is compatible with the model of the query and one that is not, whose order
\* the sort changed
C29_Witness ==
  /\ pc = "sorted"
  /\ Len(combinedResults) = 3
  /\ combinedResults # acc
  /\ analysis.hasModelNumber
  /\ Len(regexResults) = 1
  /\ \E i, j \in 1..3 :
       /\ C29_Key(combinedResults[i])[1] = 1 /\ C29_Key(combinedResults[j])[1] = 1
       /\ C29_Key(combinedResults[i])[2] = 0 /\ C29_Key(combinedResults[j])[2] = 1
       /\ relevanceOrZero(combinedResults[i]) < relevanceOrZero(combinedResults[j])


\* The stored history of a conversation (<<>> when nothing is stored)
C30_History(c) ==
  IF conversationsGet(c) = <<>> THEN <<>> ELSE arrays[conversationsGet(c)[1]]

\* No request of the conversation is waiting at an await
C30_Settled(c) ==
  \A r \in 1..Len(requests) :
    requests[r].conversationId = c => requests[r].at \in {"responded", "status400"}

\* C30: once the requests of a conversation have been answered, its stored
\* history holds the user message of every answered request, directly followed
\* by the reply to that request.
C30_HistoryKeepsEveryExchange ==
  \A c \in ConversationIds :
    C30_Settled(c) =>
      \A r \in 1..Len(requests) :
        (requests[r].conversationId = c /\ requests[r].at = "responded") =>
          \E i \in 1..(Len(C30_History(c)) - 1) :
            /\ C30_History(c)[i] = [role |-> "user", of |-> r]
            /\ C30_History(c)[i + 1] = [role |-> "assistant", of |-> r]
====
